---- MODULE Spec2Model ----
(***************************************************************************)
(* Transcript reconstruction and citation linking of the meeting-recording *)
(* pipeline (process_transcript/handler.py).                               *)
(*                                                                         *)
(* Text is modelled as a sequence of tokens.  A token is either one of the *)
(* characters the code's regular expressions and string operations look at *)
(* ("[", "]", " ", "\n", ":", "-", a decimal digit) or an atom: a run of   *)
(* other characters ("seg_", "spk_", a word), none of which is special.    *)
(* Times are integers counted in ticks, TicksPerSecond ticks to a second,  *)
(* so that the floor taken when a timestamp is formatted is a real step.   *)
(***************************************************************************)
EXTENDS Integers, Sequences, FiniteSets, TLC

VARIABLES
    pc,               \* control location of the run being modelled
    transcript_data,  \* raw ASR result given to convert_to_human_readable
    output_lines,     \* convert_to_human_readable: output_lines
    readable,         \* the string convert_to_human_readable returned
    event,            \* the event of handle_chunked_transcription
    chunks_data,      \* handle_chunked_transcription: chunks_data
    chunk_transcripts,\* handle_chunked_transcription: chunk_transcripts
    chunk_pos,        \* merge_chunked_transcripts: chunks already merged
    all_segments,     \* merge_chunked_transcripts: all_segments
    global_segment_counter,
    speaker_mapping,  \* merge_chunked_transcripts: speaker_mapping
    global_speaker_counter,
    origin,           \* ghost: for each merged segment, where it came from
    merged_transcript,\* the string merge_chunked_transcripts returned
    analysis_text,    \* input of replace_segment_citations_with_links
    segment_mapping,  \* build_segment_timestamp_mapping's result
    url_ok,           \* which timestamps the link builder yields a URL for
    references,       \* parse_segment_references' result
    ref_pos,          \* references still to process (reverse order)
    modified_text,    \* replace_segment_citations_with_links: modified_text
    result_text,      \* what replace_segment_citations_with_links returned
    pass,             \* number of the resolution pass under way
    job_status,       \* handle_single_transcription: job_status
    stored,           \* the object put under human_readable_key, if any
    status_code,      \* statusCode of the result the handler returned, 0: none
    calls,            \* the locals of each merge_chunked_transcripts call
    returned,         \* the result dict a handler returned, if any
    job_ids,          \* MediaConvert job ids: checked, or submitted so far
    agenda_data,      \* process_transcript_analysis: usable agenda data given
    video_info,       \* process_transcript_analysis: video_info
    analysis_result,  \* process_transcript_analysis: analysis_result
    analysis_success, \* process_transcript_analysis: analysis_success
    html_success,     \* process_transcript_analysis: html_success
    analysis_error,   \* the step whose exception was caught, "None" if none
    saved,            \* keys of the analysis and HTML objects put so far
    lookups,          \* what get_job answers for each job id
    job_statuses,     \* check_mediaconvert_jobs_status: job_statuses
    all_complete,     \* check_mediaconvert_jobs_status: all_complete
    any_failed,       \* check_mediaconvert_jobs_status: any_failed
    duration_seconds, \* mediaconvert_trigger: duration in ticks, 0: None
    inputKey,         \* mediaconvert_trigger: key of the recording
    target_bucket,    \* mediaconvert_trigger: target_bucket
    submitted,        \* chunk_info of each MediaConvert job created
    audio_output_keys,\* mediaconvert_trigger: audio_output_keys
    now,              \* time.time(), in seconds
    poll_start,       \* poll_textract_job: start_time
    last_poll,        \* when get_document_text_detection was last called
    poll_error,       \* the exception poll_textract_job raised, if any
    pages             \* result pages still behind a NextToken

normVars  == <<transcript_data, output_lines, readable>>
mergeVars == <<event, chunks_data, chunk_transcripts, chunk_pos, all_segments,
               global_segment_counter, speaker_mapping,
               global_speaker_counter, origin, merged_transcript>>
citeVars  == <<analysis_text, segment_mapping, url_ok, references, ref_pos,
               modified_text, result_text, pass>>
ptaVars   == <<agenda_data, video_info, analysis_result, analysis_success,
               html_success, analysis_error, saved>>
jobVars   == <<lookups, job_statuses, all_complete, any_failed>>
planVars  == <<duration_seconds, inputKey, target_bucket, submitted,
               audio_output_keys>>
pollVars  == <<now, poll_start, last_poll, poll_error, pages>>
laterVars == <<returned, job_ids, ptaVars, jobVars, planVars, pollVars>>
runVars   == <<job_status, stored, status_code, calls, laterVars>>
vars == <<pc, normVars, mergeVars, citeVars, runVars>>

(***************************************************************************)
(* Bounds of the model.                                                    *)
(***************************************************************************)
TicksPerSecond == 2   \* resolution of the float times
MaxSegments == 2      \* diarization / audio segments of one raw result
MaxItems == 3         \* items of one raw result

(***************************************************************************)
(* Python string and list primitives on token sequences.                   *)
(***************************************************************************)
DigitChar == <<"0", "1", "2", "3", "4", "5", "6", "7", "8", "9">>

IsDigit(c) == \E d \in 1..10 : DigitChar[d] = c

DigitValue(c) == (CHOOSE d \in 1..10 : DigitChar[d] = c) - 1

\* str(n) for a non-negative integer
RECURSIVE Digits(_)
Digits(n) ==
    IF n < 10 THEN <<DigitChar[n + 1]>>
    ELSE Digits(n \div 10) \o <<DigitChar[(n % 10) + 1]>>

\* f"{n:02d}"
Pad2(n) == IF n < 10 THEN <<"0">> \o Digits(n) ELSE Digits(n)

\* int(s) of a digit string; IntOk says whether int(s) succeeds
IntOk(s) == Len(s) > 0 /\ \A i \in 1..Len(s) : IsDigit(s[i])

RECURSIVE IntOf(_)
IntOf(s) ==
    IF Len(s) = 0 THEN 0
    ELSE 10 * IntOf(SubSeq(s, 1, Len(s) - 1)) + DigitValue(s[Len(s)])

IsSpace(c) == c \in {" ", "\n"}

\* s.strip()
Strip(s) ==
    LET keep == {i \in 1..Len(s) : ~IsSpace(s[i])}
    IN  IF keep = {} THEN <<>>
        ELSE SubSeq(s, CHOOSE i \in keep : \A j \in keep : i <= j,
                       CHOOSE i \in keep : \A j \in keep : j <= i)

\* s.split(sep) for a one-character separator: always at least one part
RECURSIVE Split(_, _)
Split(s, sep) ==
    IF \A i \in 1..Len(s) : s[i] # sep THEN <<s>>
    ELSE LET k == CHOOSE i \in 1..Len(s) :
                        s[i] = sep /\ \A j \in 1..(i - 1) : s[j] # sep
         IN  <<SubSeq(s, 1, k - 1)>> \o Split(SubSeq(s, k + 1, Len(s)), sep)

\* sep.join(parts)
RECURSIVE Join(_, _)
Join(parts, sep) ==
    IF Len(parts) = 0 THEN <<>>
    ELSE IF Len(parts) = 1 THEN parts[1]
    ELSE parts[1] \o <<sep>> \o Join(Tail(parts), sep)

\* Python's stable sort, before[<<i, j>>] saying that the key of seq[i] is
\* below the key of seq[j]
SortedWith(seq, before) ==
    LET n == Len(seq)
        rank(i) == Cardinality({j \in 1..n :
                        \/ before[<<j, i>>]
                        \/ ~before[<<i, j>>] /\ j < i}) + 1
    IN  [p \in 1..n |-> seq[CHOOSE i \in 1..n : rank(i) = p]]

\* sorted(seq, key=...) for numeric keys, keys[i] being the key of seq[i]
SortedBy(seq, keys) ==
    SortedWith(seq, [p \in (1..Len(seq)) \X (1..Len(seq)) |->
                        keys[p[1]] < keys[p[2]]])

\* the token at position i, "" outside the text
At(s, i) == IF i >= 1 /\ i <= Len(s) THEN s[i] ELSE ""

\* s[start:end] with Python's offsets (from 0, end excluded)
Slice(s, start, end) == SubSeq(s, start + 1, end)

\* the position of the first occurrence of c in s at or after position from,
\* Len(s) + 1 when there is none
FirstAt(s, c, from) ==
    IF \E i \in from..Len(s) : s[i] = c
    THEN CHOOSE i \in from..Len(s) :
            s[i] = c /\ \A j \in from..(i - 1) : s[j] # c
    ELSE Len(s) + 1

(***************************************************************************)
(* convert_to_human_readable                                               *)
(***************************************************************************)
\* int(t // 3600), int((t % 3600) // 60), int(t % 60) of a float t, and the
\* f-string that renders them
FormatTimestamp(seconds) ==
    Pad2(seconds \div 3600) \o <<":">> \o Pad2((seconds % 3600) \div 60)
        \o <<":">> \o Pad2(seconds % 60)

\* whole seconds of a time held in ticks: what int() keeps of the float
WholeSeconds(ticks) == ticks \div TicksPerSecond

SegId(n) == <<"seg_">> \o Digits(n)

\* f"[{segment_id}][{speaker}][{timestamp}] {text}"
FormatLine(segment_id, speaker, timestamp, text) ==
    <<"[">> \o segment_id \o <<"]", "[">> \o speaker \o <<"]", "[">>
        \o timestamp \o <<"]", " ">> \o text

UnexpectedFormat == <<"Could not process transcript: unexpected format.">>
CouldNotProcess == <<"Could not process transcript.">>

StartTimeOf(x) == x.start_time

\* the audio_segments branch: one segment per audio segment, in sorted order
AudioSegments(audio_segments) ==
    LET segments == SortedBy(audio_segments,
                        [i \in 1..Len(audio_segments) |->
                            StartTimeOf(audio_segments[i])])
    IN  [idx \in 1..Len(segments) |->
            [segment_id |-> SegId(idx - 1),
             speaker    |-> segments[idx].speaker_label,
             seconds    |-> WholeSeconds(segments[idx].start_time),
             text       |-> segments[idx].transcript]]

\* items_dict: a Python dict keeps a key at the position of its first
\* insertion and the value of its last one.  Items without alternatives are
\* skipped; an item without an id gets the key 0.
ItemKey(item) == IF item.has_id THEN item.id ELSE 0

ItemsDict(items) ==
    LET usable == SelectSeq(items, LAMBDA it : it.has_alternatives)
        n == Len(usable)
        firsts == {i \in 1..n :
                     \A j \in 1..(i - 1) : ItemKey(usable[j]) # ItemKey(usable[i])}
        nth(p) == CHOOSE i \in firsts : Cardinality({j \in firsts : j < i}) = p - 1
        last(i) == CHOOSE j \in 1..n :
                     /\ ItemKey(usable[j]) = ItemKey(usable[i])
                     /\ \A k \in (j + 1)..n : ItemKey(usable[k]) # ItemKey(usable[i])
    IN  [p \in 1..Cardinality(firsts) |->
            [item_id |-> ItemKey(usable[nth(p)]), item |-> usable[last(nth(p))]]]

\* item_id + 1 in items_dict and items_dict[item_id + 1]["type"] == "punctuation"
FollowingPunctuation(dict, item_id) ==
    IF \E p \in 1..Len(dict) :
            dict[p].item_id = item_id + 1 /\ dict[p].item.type = "punctuation"
    THEN (CHOOSE e \in {dict[p] : p \in 1..Len(dict)} :
                e.item_id = item_id + 1).item.content
    ELSE <<>>

\* the items of one speaker segment: the pronunciation items whose start_time
\* lies in [segment_start, segment_end), in dict order, then sorted by time
EntryStart(e) == e.item.start_time

SegmentItems(dict, segment) ==
    LET segment_items == SelectSeq(dict, LAMBDA e :
                /\ e.item.type = "pronunciation"
                /\ segment.start_time <= e.item.start_time
                /\ e.item.start_time < segment.end_time)
    IN  SortedBy(segment_items,
                 [i \in 1..Len(segment_items) |-> EntryStart(segment_items[i])])

\* "".join(segment_text)
RECURSIVE SegmentText(_, _, _)
RECURSIVE SpacedText(_, _, _)
SpacedText(dict, segment_items, k) ==
    IF k > Len(segment_items) THEN <<>>
    ELSE (IF k > 1 THEN <<" ">> ELSE <<>>)
            \o segment_items[k].item.content
            \o (IF FollowingPunctuation(dict, segment_items[k].item_id) # <<>>
                THEN <<" ">> ELSE <<>>)
            \o FollowingPunctuation(dict, segment_items[k].item_id)
            \o SpacedText(dict, segment_items, k + 1)

SegmentText(dict, segment_items, k) ==
    IF k > Len(segment_items) THEN <<>>
    ELSE (IF k > 1 THEN <<" ">> ELSE <<>>)
            \o segment_items[k].item.content
            \o FollowingPunctuation(dict, segment_items[k].item_id)
            \o SegmentText(dict, segment_items, k + 1)

\* the speaker_labels branch: a segment without items is left out, and an
\* emitted segment is numbered by its position idx among ALL sorted segments
SpeakerLabelSegments(speaker_labels, items) ==
    LET speaker_segments == SortedBy(speaker_labels,
                                [i \in 1..Len(speaker_labels) |->
                                    StartTimeOf(speaker_labels[i])])
        dict == ItemsDict(items)
        emitted == {i \in 1..Len(speaker_segments) :
                        Len(SegmentItems(dict, speaker_segments[i])) > 0}
        nth(p) == CHOOSE i \in emitted :
                        Cardinality({j \in emitted : j < i}) = p - 1
    IN  [p \in 1..Cardinality(emitted) |->
            LET idx == nth(p) - 1
                segment == speaker_segments[nth(p)]
            IN  [segment_id |-> SegId(idx),
                 speaker    |-> segment.speaker_label,
                 seconds    |-> WholeSeconds(segment.start_time),
                 text       |-> SegmentText(dict, SegmentItems(dict, segment), 1)]]

\* which return of convert_to_human_readable a raw result takes
Unexpected(data) ==
    ~data.has_results \/ ~data.has_speaker_labels \/ ~data.has_items

Raises(data) == ~Unexpected(data) /\ ~data.well_typed

\* The segments convert_to_human_readable emits, <<>> when it returns one of
\* the two markers instead.
ConvertSegments(data) ==
    IF Unexpected(data) \/ Raises(data) THEN <<>>
    ELSE IF data.has_audio_segments THEN AudioSegments(data.audio_segments)
    ELSE SpeakerLabelSegments(data.speaker_labels, data.items)

\* output_lines: one formatted line per emitted segment
OutputLines(data) ==
    LET segments == ConvertSegments(data)
    IN  [i \in 1..Len(segments) |->
            FormatLine(segments[i].segment_id, segments[i].speaker,
                       FormatTimestamp(segments[i].seconds), segments[i].text)]

ConvertToHumanReadable(data) ==
    IF Unexpected(data) THEN UnexpectedFormat
    ELSE IF Raises(data) THEN CouldNotProcess
    ELSE Join(OutputLines(data), "\n")

(***************************************************************************)
(* The line pattern \[([^\]]+)\]\[([^\]]+)\]\[([^\]]+)\] (.+) applied with *)
(* re.match to one line (a line holds no "\n", so "." matches every token). *)
(* A group [^\]]+ runs to the next "]" and must not be empty.              *)
(***************************************************************************)
MatchLine(line) ==
    LET n  == Len(line)
        e1 == FirstAt(line, "]", 2)
        e2 == FirstAt(line, "]", e1 + 2)
        e3 == FirstAt(line, "]", e2 + 2)
        ok == /\ n >= 1 /\ line[1] = "["
              /\ e1 <= n /\ e1 > 2
              /\ e1 + 1 <= n /\ line[e1 + 1] = "["
              /\ e2 <= n /\ e2 > e1 + 2
              /\ e2 + 1 <= n /\ line[e2 + 1] = "["
              /\ e3 <= n /\ e3 > e2 + 2
              /\ e3 + 1 <= n /\ line[e3 + 1] = " "
              /\ e3 + 2 <= n
    IN  IF ok
        THEN [matched   |-> TRUE,
              seg_id    |-> SubSeq(line, 2, e1 - 1),
              speaker   |-> SubSeq(line, e1 + 2, e2 - 1),
              timestamp |-> SubSeq(line, e2 + 2, e3 - 1),
              text      |-> SubSeq(line, e3 + 2, n)]
        ELSE [matched |-> FALSE, seg_id |-> <<>>, speaker |-> <<>>,
              timestamp |-> <<>>, text |-> <<>>]

\* for line in s.split("\n"): line = line.strip(); if not line: continue
StrippedLines(s) ==
    LET parts == Split(s, "\n")
    IN  SelectSeq([i \in 1..Len(parts) |-> Strip(parts[i])],
                  LAMBDA l : Len(l) > 0)

(***************************************************************************)
(* Inputs: raw ASR results.                                                *)
(***************************************************************************)
Spk0 == <<"spk_", "0">>
Spk1 == <<"spk_", "1">>
SpeakerLabels == {Spk0, Spk1}

\* transcripts of audio segments: plain, empty, with trailing whitespace,
\* with a line break
Texts == {<<"hello">>, <<>>, <<"hello", " ">>, <<"a", "\n", "b">>}

\* start times in ticks
Ticks == {0, 1, 3}

AudioSegmentPool ==
    [speaker_label : SpeakerLabels, start_time : Ticks, transcript : Texts]

SpeakerSegmentPool ==
    { [speaker_label |-> Spk0, start_time |-> 0, end_time |-> 2],
      [speaker_label |-> Spk1, start_time |-> 2, end_time |-> 4],
      [speaker_label |-> Spk1, start_time |-> 0, end_time |-> 4],
      [speaker_label |-> Spk0, start_time |-> 1, end_time |-> 3],
      [speaker_label |-> Spk0, start_time |-> 4, end_time |-> 6] }

Pron(has_id, id, content, start_time) ==
    [has_alternatives |-> TRUE, has_id |-> has_id, id |-> id,
     type |-> "pronunciation", content |-> content, start_time |-> start_time]

Punct(id, content) ==
    [has_alternatives |-> TRUE, has_id |-> TRUE, id |-> id,
     type |-> "punctuation", content |-> content, start_time |-> 0]

ItemPool ==
    { Pron(TRUE, 0, <<"hi">>, 0), Pron(TRUE, 1, <<"yo">>, 1),
      Pron(TRUE, 2, <<"ok">>, 2), Pron(TRUE, 2, <<"re">>, 0),
      Pron(FALSE, 0, <<"uh">>, 3),
      Punct(1, <<",">>),
      [Pron(TRUE, 4, <<"no">>, 1) EXCEPT !.has_alternatives = FALSE] }

Raw(audio_segments, speaker_labels, items) ==
    [has_results |-> TRUE, has_speaker_labels |-> TRUE, has_items |-> TRUE,
     well_typed |-> TRUE, has_audio_segments |-> audio_segments # <<>>,
     audio_segments |-> audio_segments, speaker_labels |-> speaker_labels,
     items |-> items]

\* results that lack a key, or hold a value of the wrong type
BrokenRaws ==
    { [Raw(<<>>, <<>>, <<>>) EXCEPT !.has_results = FALSE],
      [Raw(<<>>, <<>>, <<>>) EXCEPT !.has_speaker_labels = FALSE],
      [Raw(<<>>, <<>>, <<>>) EXCEPT !.has_items = FALSE],
      [Raw(<<>>, <<>>, <<>>) EXCEPT !.well_typed = FALSE] }

\* the segment-grouped shape alone: audio_segments and nothing else
AudioOnlyRaws ==
    { [Raw(a, <<>>, <<>>) EXCEPT !.has_speaker_labels = FALSE,
                                 !.has_items = FALSE] :
        a \in [1..1 -> AudioSegmentPool] }

\* data is a raw result of the model: up to MaxSegments audio segments, or
\* up to MaxSegments speaker segments and MaxItems items, or a broken result
IsRawResult(data) ==
    \/ \E k \in 1..MaxSegments : \E a \in [1..k -> AudioSegmentPool] :
            data = Raw(a, <<>>, <<>>)
    \/ \E k \in 0..MaxSegments, n \in 0..MaxItems :
            \E l \in [1..k -> SpeakerSegmentPool], i \in [1..n -> ItemPool] :
                data = Raw(<<>>, l, i)
    \/ data \in BrokenRaws \cup AudioOnlyRaws

NoRaw == Raw(<<>>, <<>>, <<>>)

(***************************************************************************)
(* handle_chunked_transcription: the chunk index and offset of each result *)
(***************************************************************************)
MaxChunks == 2        \* transcription results of one chunked event

ChunkSeconds == 14400 \* 4 * 3600: the offset between two chunk indexes

\* int(job_name.split("-")[-1]) when the name holds a "-" and the last part
\* is an integer, the array index i (from 0) otherwise
ChunkIndex(job_name, i) ==
    LET parts == Split(job_name, "-")
    IN  IF Len(parts) > 1 /\ IntOk(parts[Len(parts)])
        THEN IntOf(parts[Len(parts)]) ELSE i

\* chunk_index * 4 * 3600 if the result has a MediaConvert job id, else 0
ChunkStartTime(chunk_index, i, job_ids_len) ==
    IF i < job_ids_len THEN chunk_index * ChunkSeconds ELSE 0

ChunkIndexOf(c) == c.chunk_index

(***************************************************************************)
(* merge_chunked_transcripts: the body of "for chunk in chunk_transcripts" *)
(***************************************************************************)
\* f"chunk_{chunk_index}_{speaker}"
ChunkSpeakerKey(chunk_index, speaker) ==
    <<"chunk_">> \o Digits(chunk_index) \o <<"_">> \o speaker

SpkLabel(n) == <<"spk_">> \o Digits(n)

\* The state the loop over the lines of one chunk works on.  raised is set
\* when map(int, time_parts) raises ValueError, which ends the merge.
RECURSIVE MergeLines(_, _, _, _, _)
MergeLines(parts, j, chunk, p, st) ==
    IF j > Len(parts) \/ st.raised THEN st
    ELSE
      LET line == Strip(parts[j])
          m == MatchLine(line)
          time_parts == Split(m.timestamp, ":")
      IN  IF Len(line) = 0 \/ ~m.matched \/ Len(time_parts) # 3
          THEN MergeLines(parts, j + 1, chunk, p, st)
          ELSE IF \E k \in 1..3 : ~IntOk(time_parts[k])
          THEN [st EXCEPT !.raised = TRUE]
          ELSE
            LET segment_time_seconds ==
                    IntOf(time_parts[1]) * 3600 + IntOf(time_parts[2]) * 60
                        + IntOf(time_parts[3])
                adjusted_time_seconds ==
                    segment_time_seconds + chunk.chunk_start_time
                key == ChunkSpeakerKey(chunk.chunk_index, m.speaker)
                known == key \in DOMAIN st.speaker_mapping
                mapping == IF known THEN st.speaker_mapping
                           ELSE (key :> SpkLabel(st.global_speaker_counter))
                                    @@ st.speaker_mapping
                adjusted_segment ==
                    FormatLine(SegId(st.global_segment_counter), mapping[key],
                               FormatTimestamp(adjusted_time_seconds), m.text)
            IN  MergeLines(parts, j + 1, chunk, p,
                    [raised |-> FALSE,
                     all_segments |-> Append(st.all_segments, adjusted_segment),
                     global_segment_counter |-> st.global_segment_counter + 1,
                     speaker_mapping |-> mapping,
                     global_speaker_counter |->
                        IF known THEN st.global_speaker_counter
                        ELSE st.global_speaker_counter + 1,
                     origin |-> Append(st.origin, [chunk |-> p, line |-> j])])

\* a slip: a chunk whose conversion gave a marker ends the merge
MergeOneChunkStrict(chunk, p, st) ==
    IF Unexpected(chunk.data) \/ Raises(chunk.data)
    THEN [st EXCEPT !.raised = TRUE]
    ELSE MergeLines(Split(ConvertToHumanReadable(chunk.data), "\n"), 1,
                    chunk, p, st)

MergeOneChunk(chunk, p, st) ==
    MergeLines(Split(ConvertToHumanReadable(chunk.data), "\n"), 1, chunk, p, st)

(***************************************************************************)
(* build_segment_timestamp_mapping: the pattern                            *)
(* \[seg_(\d+)\]\[[^\]]+\]\[([^\]]+)\] (.+) on every stripped line; a      *)
(* later line with the same id overwrites the entry.                       *)
(***************************************************************************)
\* the position after the digits that start at position i
RECURSIVE DigitsEnd(_, _)
DigitsEnd(s, i) == IF IsDigit(At(s, i)) THEN DigitsEnd(s, i + 1) ELSE i

MatchMappingLine(line) ==
    LET n  == Len(line)
        d  == DigitsEnd(line, 3)
        e2 == FirstAt(line, "]", d + 2)
        e3 == FirstAt(line, "]", e2 + 2)
        ok == /\ At(line, 1) = "[" /\ At(line, 2) = "seg_"
              /\ d > 3 /\ At(line, d) = "]"
              /\ At(line, d + 1) = "["
              /\ e2 <= n /\ e2 > d + 2
              /\ At(line, e2 + 1) = "["
              /\ e3 <= n /\ e3 > e2 + 2
              /\ At(line, e3 + 1) = " "
              /\ e3 + 2 <= n
    IN  IF ok
        THEN [matched |-> TRUE,
              seg_id |-> <<"seg_">> \o SubSeq(line, 3, d - 1),
              timestamp |-> SubSeq(line, e2 + 2, e3 - 1)]
        ELSE [matched |-> FALSE, seg_id |-> <<>>, timestamp |-> <<>>]

BuildSegmentTimestampMapping(human_readable_transcript) ==
    LET lines == StrippedLines(human_readable_transcript)
        hits == {i \in 1..Len(lines) : MatchMappingLine(lines[i]).matched}
        last(id) == CHOOSE i \in hits :
                        /\ MatchMappingLine(lines[i]).seg_id = id
                        /\ \A j \in hits :
                            MatchMappingLine(lines[j]).seg_id = id => j <= i
    IN  [id \in {MatchMappingLine(lines[i]).seg_id : i \in hits} |->
            MatchMappingLine(lines[last(id)]).timestamp]

(***************************************************************************)
(* parse_segment_references                                                *)
(***************************************************************************)
NoMatch == [ok |-> FALSE, last |-> 0, g1 |-> <<>>, g2 |-> <<>>]

\* \[seg_(\d+)\] at position i
MatchSingle(s, i) ==
    LET d == DigitsEnd(s, i + 2)
    IN  IF At(s, i) = "[" /\ At(s, i + 1) = "seg_" /\ d > i + 2
           /\ At(s, d) = "]"
        THEN [ok |-> TRUE, last |-> d, g1 |-> SubSeq(s, i + 2, d - 1),
              g2 |-> <<>>]
        ELSE NoMatch

\* \[seg_(\d+)-(\d+)\] at position i
MatchRange1(s, i) ==
    LET d1 == DigitsEnd(s, i + 2)
        d2 == DigitsEnd(s, d1 + 1)
    IN  IF At(s, i) = "[" /\ At(s, i + 1) = "seg_" /\ d1 > i + 2
           /\ At(s, d1) = "-" /\ d2 > d1 + 1 /\ At(s, d2) = "]"
        THEN [ok |-> TRUE, last |-> d2, g1 |-> SubSeq(s, i + 2, d1 - 1),
              g2 |-> SubSeq(s, d1 + 1, d2 - 1)]
        ELSE NoMatch

\* \[seg_(\d+)-seg_(\d+)\] at position i
MatchRange2(s, i) ==
    LET d1 == DigitsEnd(s, i + 2)
        d2 == DigitsEnd(s, d1 + 2)
    IN  IF At(s, i) = "[" /\ At(s, i + 1) = "seg_" /\ d1 > i + 2
           /\ At(s, d1) = "-" /\ At(s, d1 + 1) = "seg_"
           /\ d2 > d1 + 2 /\ At(s, d2) = "]"
        THEN [ok |-> TRUE, last |-> d2, g1 |-> SubSeq(s, i + 2, d1 - 1),
              g2 |-> SubSeq(s, d1 + 2, d2 - 1)]
        ELSE NoMatch

\* a slip: a range written backwards is read as the range between its ends
SegRangeEitherWay(start_seg, end_seg) ==
    LET lo == IF start_seg <= end_seg THEN start_seg ELSE end_seg
        hi == IF start_seg <= end_seg THEN end_seg ELSE start_seg
    IN  [k \in 1..(hi - lo + 1) |-> <<"seg_">> \o Digits(lo + k - 1)]

\* [f"seg_{i}" for i in range(start_seg, end_seg + 1)]
SegRange(start_seg, end_seg) ==
    [k \in 1..(end_seg - start_seg + 1) |-> SegId(start_seg + k - 1)]

SingleReference(s, i, m) ==
    [original |-> SubSeq(s, i, m.last),
     segments |-> << <<"seg_">> \o m.g1 >>,
     start |-> i - 1, end |-> m.last]

RangeReference(s, i, m) ==
    [original |-> SubSeq(s, i, m.last),
     segments |-> SegRange(IntOf(m.g1), IntOf(m.g2)),
     start |-> i - 1, end |-> m.last]

\* re.finditer: the matches found scanning from position i, each search
\* resuming where the last match ended
RECURSIVE FindSingles(_, _)
FindSingles(s, i) ==
    IF i > Len(s) THEN <<>>
    ELSE IF MatchSingle(s, i).ok
    THEN <<SingleReference(s, i, MatchSingle(s, i))>>
            \o FindSingles(s, MatchSingle(s, i).last + 1)
    ELSE FindSingles(s, i + 1)

RECURSIVE FindRanges1(_, _)
FindRanges1(s, i) ==
    IF i > Len(s) THEN <<>>
    ELSE IF MatchRange1(s, i).ok
    THEN <<RangeReference(s, i, MatchRange1(s, i))>>
            \o FindRanges1(s, MatchRange1(s, i).last + 1)
    ELSE FindRanges1(s, i + 1)

RECURSIVE FindRanges2(_, _)
FindRanges2(s, i) ==
    IF i > Len(s) THEN <<>>
    ELSE IF MatchRange2(s, i).ok
    THEN <<RangeReference(s, i, MatchRange2(s, i))>>
            \o FindRanges2(s, MatchRange2(s, i).last + 1)
    ELSE FindRanges2(s, i + 1)

\* the references list before the sort
RawReferences(s) == FindSingles(s, 1) \o FindRanges1(s, 1) \o FindRanges2(s, 1)

\* key=lambda x: (x["start"], -(x["end"] - x["start"]))
ReferenceBefore(a, b) ==
    \/ a.start < b.start
    \/ a.start = b.start /\ (a.end - a.start) > (b.end - b.start)

\* a slip: ">" for ">=" drops a marker that starts where the last one ended
KeepsStrictlyAfter(ref, last_end) == ref.start > last_end

\* if ref["start"] >= last_end: keep the reference
Keeps(ref, last_end) == ref.start >= last_end

RECURSIVE FilterOverlaps(_, _, _)
FilterOverlaps(refs, k, last_end) ==
    IF k > Len(refs) THEN <<>>
    ELSE IF Keeps(refs[k], last_end)
    THEN <<refs[k]>> \o FilterOverlaps(refs, k + 1, refs[k].end)
    ELSE FilterOverlaps(refs, k + 1, last_end)

ParseSegmentReferences(s) ==
    LET refs == RawReferences(s)
    IN  FilterOverlaps(
            SortedWith(refs, [p \in (1..Len(refs)) \X (1..Len(refs)) |->
                                ReferenceBefore(refs[p[1]], refs[p[2]])]),
            1, -1)

(***************************************************************************)
(* generate_video_url_with_timestamp, replace_segment_citations_with_links *)
(***************************************************************************)
\* f"{presigned_url}#t={timestamp_str}"
VideoUrl(timestamp) == <<"https://presigned", "#t=">> \o timestamp

\* f"{original_citation}VIDEOLINK[{video_url}]ENDLINK"
LinkText(original_citation, video_url) ==
    original_citation \o <<"VIDEOLINK", "[">> \o video_url
        \o <<"]", "ENDLINK">>

\* modified_text[:start_pos] + link_text + modified_text[end_pos:]
ReplaceAt(text, ref, link_text) ==
    Slice(text, 0, ref.start) \o link_text \o Slice(text, ref.end, Len(text))

\* a slip: the references taken first to last, with their original offsets
ReferenceForward(refs, n) == refs[Len(refs) - n + 1]

\* for ref in reversed(references): the reference taken when n remain
ReferenceUnderWay(refs, n) == refs[n]

(***************************************************************************)
(* Inputs: chunked events.                                                 *)
(***************************************************************************)
JobNames ==
    { <<"transcribe", "-", "exec", "-", "0">>,
      <<"transcribe", "-", "exec", "-", "1">>,
      <<"other", "-", "1">>,
      <<"transcribe">> }

\* a time after the end of a four-hour chunk, in ticks
LateTick == (ChunkSeconds + 1) * TicksPerSecond

Audio(speaker_label, start_time, transcript) ==
    [speaker_label |-> speaker_label, start_time |-> start_time,
     transcript |-> transcript]

\* The transcript JSON objects of the bucket, by key: two speakers; a
\* segment past the fourth hour; texts with trailing whitespace and a line
\* break; a first diarization segment without items; a text whose second
\* line looks like a transcript line with a timestamp that is no number; a
\* text whose second line looks like a transcript line with a timestamp of
\* two parts; an unprocessable result.
TranscriptKeys == {"two.json", "late.json", "texts.json", "gap.json",
                   "inject.json", "short.json", "broken.json"}

S3Object(key) ==
    CASE key = "two.json" ->
            Raw(<<Audio(Spk0, 0, <<"hello">>), Audio(Spk1, 3, <<"hello">>)>>,
                <<>>, <<>>)
      [] key = "late.json" ->
            Raw(<<Audio(Spk0, LateTick, <<"hello">>)>>, <<>>, <<>>)
      [] key = "texts.json" ->
            Raw(<<Audio(Spk0, 1, <<"hello", " ">>),
                  Audio(Spk1, 3, <<"a", "\n", "b">>)>>, <<>>, <<>>)
      [] key = "gap.json" ->
            Raw(<<>>,
                <<[speaker_label |-> Spk0, start_time |-> 0, end_time |-> 2],
                  [speaker_label |-> Spk1, start_time |-> 2, end_time |-> 4]>>,
                <<Pron(TRUE, 0, <<"ok">>, 2), Punct(1, <<".">>)>>)
      [] key = "inject.json" ->
            Raw(<<Audio(Spk0, 0, <<"a", "\n", "[", "x", "]", "[", "y", "]",
                                   "[", "a", ":", "b", ":", "c", "]", " ",
                                   "z">>)>>, <<>>, <<>>)
      [] key = "short.json" ->
            Raw(<<Audio(Spk0, 0, <<"a", "\n", "[", "x", "]", "[", "y", "]",
                                   "[", "1", ":", "2", "]", " ", "z">>),
                  Audio(Spk1, 3, <<"hello">>)>>, <<>>, <<>>)
      [] OTHER -> [Raw(<<>>, <<>>, <<>>) EXCEPT !.has_results = FALSE]

TranscriptionResults ==
    [job_name : JobNames, status : {"COMPLETED"},
     transcript_key : TranscriptKeys]
    \cup [job_name : JobNames, status : {"FAILED"},
          transcript_key : {"broken.json"}]

\* Transcribe job names are unique, so the results of one event differ in
\* them; MediaConvert reports a job id for every result, or for all but the
\* last
IsEvent(e) ==
    \E k \in 1..MaxChunks : \E r \in [1..k -> TranscriptionResults] :
        /\ \A i, j \in 1..k : i # j => r[i].job_name # r[j].job_name
        /\ \E n \in {k - 1, k} : e = [results |-> r, job_ids_len |-> n]

NoEvent == [results |-> <<>>, job_ids_len |-> 0]

(***************************************************************************)
(* Initial states and actions.                                             *)
(***************************************************************************)
NoFunction == [x \in {} |-> <<>>]

NormIdle ==
    /\ transcript_data = NoRaw
    /\ output_lines = <<>>
    /\ readable = <<>>

MergeIdle ==
    /\ event = NoEvent
    /\ chunks_data = <<>>
    /\ chunk_transcripts = <<>>
    /\ chunk_pos = 0
    /\ all_segments = <<>>
    /\ global_segment_counter = 0
    /\ speaker_mapping = NoFunction
    /\ global_speaker_counter = 0
    /\ origin = <<>>
    /\ merged_transcript = <<>>

CiteIdle ==
    /\ analysis_text = <<>>
    /\ segment_mapping = NoFunction
    /\ url_ok = {}
    /\ references = <<>>
    /\ ref_pos = 0
    /\ modified_text = <<>>
    /\ result_text = <<>>
    /\ pass = 0

NotStored == [written |-> FALSE, body |-> <<>>]

\* no result returned yet
NoResult == [statusCode |-> 0]

PtaIdle ==
    /\ agenda_data = FALSE
    /\ video_info = "none"
    /\ analysis_result = <<>>
    /\ analysis_success = FALSE
    /\ html_success = FALSE
    /\ analysis_error = "None"
    /\ saved = {}

JobIdle ==
    /\ lookups = <<>>
    /\ job_statuses = <<>>
    /\ all_complete = TRUE
    /\ any_failed = FALSE

PlanIdle ==
    /\ duration_seconds = 0
    /\ inputKey = <<>>
    /\ target_bucket = "None"
    /\ submitted = <<>>
    /\ audio_output_keys = <<>>

PollIdle ==
    /\ now = 0
    /\ poll_start = 0
    /\ last_poll = 0
    /\ poll_error = "None"
    /\ pages = 0

LaterIdle ==
    /\ returned = NoResult
    /\ job_ids = <<>>
    /\ PtaIdle /\ JobIdle /\ PlanIdle /\ PollIdle

RunIdle ==
    /\ job_status = "COMPLETED"
    /\ stored = NotStored
    /\ status_code = 0
    /\ calls = <<>>
    /\ LaterIdle

\* ---- convert_to_human_readable on one raw result
InitNormalize ==
    /\ pc = "convert"
    /\ IsRawResult(transcript_data)
    /\ output_lines = <<>>
    /\ readable = <<>>
    /\ MergeIdle /\ CiteIdle /\ RunIdle

\* a slip: no except clause, the exception leaves the function
ConvertUncaught ==
    /\ pc = "convert"
    /\ IF Raises(transcript_data)
       THEN /\ pc' = "raised"
            /\ UNCHANGED <<output_lines, readable>>
       ELSE /\ output_lines' = OutputLines(transcript_data)
            /\ readable' = ConvertToHumanReadable(transcript_data)
            /\ pc' = "converted"
    /\ UNCHANGED <<runVars, transcript_data, mergeVars, citeVars>>

Convert ==
    /\ pc = "convert"
    /\ output_lines' = OutputLines(transcript_data)
    /\ readable' = ConvertToHumanReadable(transcript_data)
    /\ pc' = "converted"
    /\ UNCHANGED <<runVars, transcript_data, mergeVars, citeVars>>

NextNormalize == Convert

SpecNormalize == InitNormalize /\ [][NextNormalize]_vars

\* ---- handler -> handle_single_transcription -> process_transcript_analysis
InitSingle ==
    /\ pc = "single"
    /\ IsRawResult(transcript_data)
    /\ output_lines = <<>>
    /\ readable = <<>>
    /\ job_status \in {"COMPLETED", "FAILED"}
    /\ stored = NotStored
    /\ status_code = 0
    /\ calls = <<>>
    /\ LaterIdle
    /\ MergeIdle /\ CiteIdle

\* raise ValueError: the job is not completed; handler logs and re-raises
SingleNotCompleted ==
    /\ pc = "single"
    /\ job_status # "COMPLETED"
    /\ pc' = "failed"
    /\ UNCHANGED <<runVars, normVars, mergeVars, citeVars>>

\* len(transcript_data.get("results", {}).get("items", [])) in the log call
\* before the conversion: a value of the wrong type may raise here already
SingleItemCountRaises ==
    /\ pc = "single"
    /\ job_status = "COMPLETED"
    /\ ~transcript_data.well_typed
    /\ pc' = "failed"
    /\ UNCHANGED <<runVars, normVars, mergeVars, citeVars>>

\* human_readable_transcript = convert_to_human_readable(transcript_data)
SingleConvert ==
    /\ pc = "single"
    /\ job_status = "COMPLETED"
    /\ output_lines' = OutputLines(transcript_data)
    /\ readable' = ConvertToHumanReadable(transcript_data)
    /\ pc' = "analysis"
    /\ UNCHANGED <<runVars, transcript_data, mergeVars, citeVars>>

\* process_transcript_analysis on the single transcript: the transcript is
\* put under human_readable_key, the segment mapping is built, and whatever
\* the analysis does the result returned has statusCode 200
ProcessSingleTranscript ==
    /\ pc = "analysis"
    /\ stored' = [written |-> TRUE, body |-> readable]
    /\ segment_mapping' = BuildSegmentTimestampMapping(readable)
    /\ status_code' = 200
    /\ pc' = "done"
    /\ UNCHANGED <<laterVars, job_status, calls, mergeVars, normVars, analysis_text,
                   url_ok, references, ref_pos, modified_text, result_text,
                   pass>>

NextSingle ==
    \/ SingleNotCompleted
    \/ SingleItemCountRaises
    \/ SingleConvert
    \/ ProcessSingleTranscript

SpecSingle == InitSingle /\ [][NextSingle]_vars

\* ---- handle_chunked_transcription and merge_chunked_transcripts
InitMerge ==
    /\ pc = "extract"
    /\ IsEvent(event)
    /\ chunks_data = <<>>
    /\ chunk_transcripts = <<>>
    /\ chunk_pos = 0
    /\ all_segments = <<>>
    /\ global_segment_counter = 0
    /\ speaker_mapping = NoFunction
    /\ global_speaker_counter = 0
    /\ origin = <<>>
    /\ merged_transcript = <<>>
    /\ NormIdle /\ CiteIdle /\ RunIdle

\* one iteration of "for i, result in enumerate(transcription_results)"
ExtractChunk ==
    /\ pc = "extract"
    /\ Len(chunks_data) < Len(event.results)
    /\ LET i == Len(chunks_data)
           result == event.results[i + 1]
           chunk_index == ChunkIndex(result.job_name, i)
       IN  /\ result.status = "COMPLETED"
           /\ chunks_data' = Append(chunks_data,
                [chunk_index |-> chunk_index,
                 job_name |-> result.job_name,
                 transcript_key |-> result.transcript_key,
                 chunk_start_time |->
                    ChunkStartTime(chunk_index, i, event.job_ids_len)])
    /\ UNCHANGED <<runVars, pc, event, chunk_transcripts, chunk_pos, all_segments,
                   global_segment_counter, speaker_mapping,
                   global_speaker_counter, origin, merged_transcript,
                   normVars, citeVars>>

\* a slip: no status check, the result is taken as it is
AcceptNotCompleted ==
    /\ pc = "extract"
    /\ Len(chunks_data) < Len(event.results)
    /\ LET i == Len(chunks_data)
           result == event.results[i + 1]
           chunk_index == ChunkIndex(result.job_name, i)
       IN  /\ result.status # "COMPLETED"
           /\ chunks_data' = Append(chunks_data,
                [chunk_index |-> chunk_index,
                 job_name |-> result.job_name,
                 transcript_key |-> result.transcript_key,
                 chunk_start_time |->
                    ChunkStartTime(chunk_index, i, event.job_ids_len)])
    /\ UNCHANGED <<runVars, pc, event, chunk_transcripts, chunk_pos,
                   all_segments, global_segment_counter, speaker_mapping,
                   global_speaker_counter, origin, merged_transcript,
                   normVars, citeVars>>

\* raise ValueError: the job of this result is not completed
RaiseNotCompleted ==
    /\ pc = "extract"
    /\ Len(chunks_data) < Len(event.results)
    /\ event.results[Len(chunks_data) + 1].status # "COMPLETED"
    /\ pc' = "failed"
    /\ UNCHANGED <<runVars, mergeVars, normVars, citeVars>>

\* chunks_data.sort(key=lambda x: x["chunk_index"])
SortChunks ==
    /\ pc = "extract"
    /\ Len(chunks_data) = Len(event.results)
    /\ chunks_data' = SortedBy(chunks_data,
                                [i \in 1..Len(chunks_data) |->
                                    ChunkIndexOf(chunks_data[i])])
    /\ pc' = "fetch"
    /\ UNCHANGED <<runVars, event, chunk_transcripts, chunk_pos, all_segments,
                   global_segment_counter, speaker_mapping,
                   global_speaker_counter, origin, merged_transcript,
                   normVars, citeVars>>

\* the loop that fetches the transcript JSON of every chunk
FetchTranscripts ==
    /\ pc = "fetch"
    /\ chunk_transcripts' =
            [p \in 1..Len(chunks_data) |->
                [data |-> S3Object(chunks_data[p].transcript_key),
                 chunk_index |-> chunks_data[p].chunk_index,
                 chunk_start_time |-> chunks_data[p].chunk_start_time,
                 job_name |-> chunks_data[p].job_name]]
    /\ pc' = "merge"
    /\ UNCHANGED <<runVars, event, chunks_data, chunk_pos, all_segments,
                   global_segment_counter, speaker_mapping,
                   global_speaker_counter, origin, merged_transcript,
                   normVars, citeVars>>

\* a slip: the segment counter is set to 0 for every chunk
MergeStateFromZero ==
    [raised |-> FALSE, all_segments |-> all_segments,
     global_segment_counter |-> 0,
     speaker_mapping |-> speaker_mapping,
     global_speaker_counter |-> global_speaker_counter, origin |-> origin]

MergeState ==
    [raised |-> FALSE, all_segments |-> all_segments,
     global_segment_counter |-> global_segment_counter,
     speaker_mapping |-> speaker_mapping,
     global_speaker_counter |-> global_speaker_counter, origin |-> origin]

\* one iteration of "for chunk in chunk_transcripts"
MergeChunk ==
    /\ pc = "merge"
    /\ chunk_pos < Len(chunk_transcripts)
    /\ LET st == MergeOneChunk(chunk_transcripts[chunk_pos + 1],
                               chunk_pos + 1, MergeState)
       IN  /\ ~st.raised
           /\ all_segments' = st.all_segments
           /\ global_segment_counter' = st.global_segment_counter
           /\ speaker_mapping' = st.speaker_mapping
           /\ global_speaker_counter' = st.global_speaker_counter
           /\ origin' = st.origin
    /\ chunk_pos' = chunk_pos + 1
    /\ UNCHANGED <<runVars, pc, event, chunks_data, chunk_transcripts,
                   merged_transcript, normVars, citeVars>>

\* map(int, time_parts) raises ValueError, nothing catches it
MergeRaises ==
    /\ pc = "merge"
    /\ chunk_pos < Len(chunk_transcripts)
    /\ MergeOneChunk(chunk_transcripts[chunk_pos + 1], chunk_pos + 1,
                     MergeState).raised
    /\ pc' = "failed"
    /\ UNCHANGED <<runVars, mergeVars, normVars, citeVars>>

\* merged_transcript = "\n".join(all_segments)
MergeReturn ==
    /\ pc = "merge"
    /\ chunk_pos = Len(chunk_transcripts)
    /\ merged_transcript' = Join(all_segments, "\n")
    /\ pc' = "merged"
    /\ UNCHANGED <<runVars, event, chunks_data, chunk_transcripts, chunk_pos,
                   all_segments, global_segment_counter, speaker_mapping,
                   global_speaker_counter, origin, normVars, citeVars>>

\* process_transcript_analysis on the merged transcript: the transcript is
\* put under human_readable_key, the segment mapping is built, and whatever
\* the analysis does the result returned has statusCode 200
ProcessMergedTranscript ==
    /\ pc = "merged"
    /\ stored' = [written |-> TRUE, body |-> merged_transcript]
    /\ segment_mapping' = BuildSegmentTimestampMapping(merged_transcript)
    /\ status_code' = 200
    /\ pc' = "done"
    /\ UNCHANGED <<laterVars, job_status, calls, mergeVars, normVars, analysis_text,
                   url_ok, references, ref_pos, modified_text, result_text,
                   pass>>

NextMerge ==
    \/ ExtractChunk
    \/ RaiseNotCompleted
    \/ SortChunks
    \/ FetchTranscripts
    \/ MergeChunk
    \/ MergeRaises
    \/ MergeReturn
    \/ ProcessMergedTranscript

SpecMerge == InitMerge /\ [][NextMerge]_vars

\* ---- several merge_chunked_transcripts calls under way at once (one per
\* ---- recording); a step of one call runs between the steps of another
MaxCalls == 2         \* merge calls under way at once

Chunk(key, chunk_index) ==
    [data |-> S3Object(key), chunk_index |-> chunk_index,
     chunk_start_time |-> chunk_index * ChunkSeconds,
     job_name |-> <<"transcribe", "-", "exec", "-">> \o Digits(chunk_index)]

\* the chunk_transcripts argument of a call
CallInputs ==
    { <<Chunk("two.json", 0)>>,
      <<Chunk("two.json", 0), Chunk("gap.json", 1)>>,
      <<Chunk("broken.json", 0), Chunk("texts.json", 1)>>,
      <<Chunk("inject.json", 0)>> }

\* a call that has not run its first statement
NewCall(chunks) ==
    [pc |-> "called", chunk_transcripts |-> chunks, chunk_pos |-> 0,
     all_segments |-> <<>>, global_segment_counter |-> 0,
     speaker_mapping |-> NoFunction, global_speaker_counter |-> 0,
     origin |-> <<>>, merged_transcript |-> <<>>]

InitCalls ==
    /\ pc = "calls"
    /\ calls \in [1..MaxCalls -> {NewCall(chunks) : chunks \in CallInputs}]
    /\ job_status = "COMPLETED"
    /\ stored = NotStored
    /\ status_code = 0
    /\ LaterIdle
    /\ NormIdle /\ MergeIdle /\ CiteIdle

\* a slip: the two counters are process-wide, so a call counts on from the
\* highest values any call has reached
ProcessWideState(c) ==
    LET Highest(S) == CHOOSE x \in S : \A y \in S : y <= x
    IN  [raised |-> FALSE, all_segments |-> calls[c].all_segments,
         global_segment_counter |->
            Highest({calls[d].global_segment_counter : d \in 1..Len(calls)}),
         speaker_mapping |-> calls[c].speaker_mapping,
         global_speaker_counter |->
            Highest({calls[d].global_speaker_counter : d \in 1..Len(calls)}),
         origin |-> calls[c].origin]

\* the locals of call c, as the loop body reads them
CallState(c) ==
    [raised |-> FALSE, all_segments |-> calls[c].all_segments,
     global_segment_counter |-> calls[c].global_segment_counter,
     speaker_mapping |-> calls[c].speaker_mapping,
     global_speaker_counter |-> calls[c].global_speaker_counter,
     origin |-> calls[c].origin]

\* all_segments = [], global_segment_counter = 0, speaker_mapping = {},
\* global_speaker_counter = 0
CallEnter ==
    /\ pc = "calls"
    /\ \E c \in 1..Len(calls) :
        /\ calls[c].pc = "called"
        /\ calls' = [calls EXCEPT ![c] =
                        [NewCall(calls[c].chunk_transcripts)
                            EXCEPT !.pc = "merge"]]
    /\ UNCHANGED <<pc, job_status, stored, status_code, normVars, mergeVars,
                   citeVars, laterVars>>

\* one iteration of "for chunk in chunk_transcripts" of one call
CallMergeChunk ==
    /\ pc = "calls"
    /\ \E c \in 1..Len(calls) :
        /\ calls[c].pc = "merge"
        /\ calls[c].chunk_pos < Len(calls[c].chunk_transcripts)
        /\ LET p == calls[c].chunk_pos + 1
               st == MergeOneChunk(calls[c].chunk_transcripts[p], p,
                                   CallState(c))
           IN  /\ ~st.raised
               /\ calls' = [calls EXCEPT ![c] =
                    [@ EXCEPT !.chunk_pos = p,
                              !.all_segments = st.all_segments,
                              !.global_segment_counter =
                                    st.global_segment_counter,
                              !.speaker_mapping = st.speaker_mapping,
                              !.global_speaker_counter =
                                    st.global_speaker_counter,
                              !.origin = st.origin]]
    /\ UNCHANGED <<pc, job_status, stored, status_code, normVars, mergeVars,
                   citeVars, laterVars>>

\* map(int, time_parts) raises ValueError in one call: that call ends
CallMergeRaises ==
    /\ pc = "calls"
    /\ \E c \in 1..Len(calls) :
        /\ calls[c].pc = "merge"
        /\ calls[c].chunk_pos < Len(calls[c].chunk_transcripts)
        /\ LET p == calls[c].chunk_pos + 1
           IN  MergeOneChunk(calls[c].chunk_transcripts[p], p,
                             CallState(c)).raised
        /\ calls' = [calls EXCEPT ![c].pc = "raised"]
    /\ UNCHANGED <<pc, job_status, stored, status_code, normVars, mergeVars,
                   citeVars, laterVars>>

\* merged_transcript = "\n".join(all_segments); return merged_transcript
CallReturn ==
    /\ pc = "calls"
    /\ \E c \in 1..Len(calls) :
        /\ calls[c].pc = "merge"
        /\ calls[c].chunk_pos = Len(calls[c].chunk_transcripts)
        /\ calls' = [calls EXCEPT ![c] =
                [@ EXCEPT !.pc = "returned",
                          !.merged_transcript =
                                Join(calls[c].all_segments, "\n")]]
    /\ UNCHANGED <<pc, job_status, stored, status_code, normVars, mergeVars,
                   citeVars, laterVars>>

NextCalls ==
    \/ CallEnter
    \/ CallMergeChunk
    \/ CallMergeRaises
    \/ CallReturn

SpecCalls == InitCalls /\ [][NextCalls]_vars

\* ---- replace_segment_citations_with_links on one analysis text
MaxPieces == 3        \* pieces an analysis text is put together from

Pieces ==
    { <<"see", " ">>,
      <<"[", "seg_", "1", "]">>,
      <<"[", "seg_", "9", "]">>,
      <<"[", "seg_", "1", "-", "2", "]">>,
      <<"[", "seg_", "2", "-", "1", "]">>,
      <<"[", "seg_", "1", "-", "seg_", "2", "]">>,
      <<"[", "seg_", "2", "-", "seg_", "1", "]">>,
      <<"[", "seg_", "1">> }

RECURSIVE Concat(_)
Concat(parts) == IF Len(parts) = 0 THEN <<>>
                 ELSE parts[1] \o Concat(Tail(parts))

IsAnalysisText(text) ==
    \E k \in 0..MaxPieces : \E q \in [1..k -> Pieces] : text = Concat(q)

\* the transcripts of record the segment index is built from: three
\* segments, a lone seg_1 (its seg_0 was dropped)
CiteRaws ==
    { Raw(<<Audio(Spk0, 0, <<"hello">>),
            Audio(Spk1, TicksPerSecond, <<"hello">>),
            Audio(Spk0, 2 * TicksPerSecond, <<"hello">>)>>, <<>>, <<>>),
      Raw(<<>>, <<[speaker_label |-> Spk0, start_time |-> 0, end_time |-> 2],
                  [speaker_label |-> Spk1, start_time |-> 2, end_time |-> 4]>>,
          <<Pron(TRUE, 0, <<"ok">>, 2), Punct(1, <<".">>)>>) }

\* segment_mapping = build_segment_timestamp_mapping(human_readable_transcript)
SegmentMappings ==
    {BuildSegmentTimestampMapping(ConvertToHumanReadable(r)) : r \in CiteRaws}

Range(f) == {f[x] : x \in DOMAIN f}

\* the link builder: it answers for every timestamp, for none, or for all
\* but the one of seg_1
UrlChoices(mapping) ==
    {Range(mapping), {}}
    \cup {Range(mapping) \ {mapping[id]} : id \in DOMAIN mapping \cap {SegId(1)}}

InitCite ==
    /\ pc = "parse"
    /\ IsAnalysisText(analysis_text)
    /\ segment_mapping \in SegmentMappings
    /\ url_ok \in UrlChoices(segment_mapping)
    /\ references = <<>>
    /\ ref_pos = 0
    /\ modified_text = <<>>
    /\ result_text = <<>>
    /\ pass = 1
    /\ NormIdle /\ MergeIdle /\ RunIdle

\* references = parse_segment_references(analysis_text), some found
ParseReferences ==
    /\ pc = "parse"
    /\ ParseSegmentReferences(analysis_text) # <<>>
    /\ references' = ParseSegmentReferences(analysis_text)
    /\ ref_pos' = Len(references')
    /\ modified_text' = analysis_text
    /\ pc' = "replace"
    /\ UNCHANGED <<runVars, analysis_text, segment_mapping, url_ok, result_text, pass,
                   normVars, mergeVars>>

\* if not references: return analysis_text
ReturnNoReferences ==
    /\ pc = "parse"
    /\ ParseSegmentReferences(analysis_text) = <<>>
    /\ references' = <<>>
    /\ result_text' = analysis_text
    /\ pc' = "returned"
    /\ UNCHANGED <<runVars, analysis_text, segment_mapping, url_ok, ref_pos,
                   modified_text, pass, normVars, mergeVars>>

\* the reference has a first segment, the index knows it, a URL comes back
Annotate ==
    /\ pc = "replace" /\ ref_pos > 0
    /\ LET ref == ReferenceUnderWay(references, ref_pos)
       IN  /\ Len(ref.segments) > 0
           /\ ref.segments[1] \in DOMAIN segment_mapping
           /\ segment_mapping[ref.segments[1]] \in url_ok
           /\ modified_text' =
                ReplaceAt(modified_text, ref,
                    LinkText(ref.original,
                             VideoUrl(segment_mapping[ref.segments[1]])))
    /\ ref_pos' = ref_pos - 1
    /\ UNCHANGED <<runVars, pc, analysis_text, segment_mapping, url_ok, references,
                   result_text, pass, normVars, mergeVars>>

\* generate_video_url_with_timestamp returned None: warning, text kept
SkipNoUrl ==
    /\ pc = "replace" /\ ref_pos > 0
    /\ LET ref == ReferenceUnderWay(references, ref_pos)
       IN  /\ Len(ref.segments) > 0
           /\ ref.segments[1] \in DOMAIN segment_mapping
           /\ segment_mapping[ref.segments[1]] \notin url_ok
    /\ ref_pos' = ref_pos - 1
    /\ UNCHANGED <<runVars, pc, analysis_text, segment_mapping, url_ok, references,
                   modified_text, result_text, pass, normVars, mergeVars>>

\* first_segment is not a key of segment_mapping: warning, text kept
SkipNoTimestamp ==
    /\ pc = "replace" /\ ref_pos > 0
    /\ LET ref == ReferenceUnderWay(references, ref_pos)
       IN  /\ Len(ref.segments) > 0
           /\ ref.segments[1] \notin DOMAIN segment_mapping
    /\ ref_pos' = ref_pos - 1
    /\ UNCHANGED <<runVars, pc, analysis_text, segment_mapping, url_ok, references,
                   modified_text, result_text, pass, normVars, mergeVars>>

\* a slip: no except clause, the IndexError leaves the function
ExceptionPropagates ==
    /\ pc = "replace" /\ ref_pos > 0
    /\ Len(ReferenceUnderWay(references, ref_pos).segments) = 0
    /\ pc' = "raised"
    /\ UNCHANGED <<runVars, citeVars, normVars, mergeVars>>

\* segments[0] of an empty list raises IndexError; the except clause of the
\* function returns analysis_text
CatchException ==
    /\ pc = "replace" /\ ref_pos > 0
    /\ Len(ReferenceUnderWay(references, ref_pos).segments) = 0
    /\ result_text' = analysis_text
    /\ pc' = "returned"
    /\ UNCHANGED <<runVars, analysis_text, segment_mapping, url_ok, references, ref_pos,
                   modified_text, pass, normVars, mergeVars>>

\* return modified_text
ReturnModified ==
    /\ pc = "replace" /\ ref_pos = 0
    /\ result_text' = modified_text
    /\ pc' = "returned"
    /\ UNCHANGED <<runVars, analysis_text, segment_mapping, url_ok, references, ref_pos,
                   modified_text, pass, normVars, mergeVars>>

NextCite ==
    \/ ParseReferences
    \/ ReturnNoReferences
    \/ Annotate
    \/ SkipNoUrl
    \/ SkipNoTimestamp
    \/ CatchException
    \/ ReturnModified

SpecCite == InitCite /\ [][NextCite]_vars

\* a second resolution pass over the text the first pass returned
SecondPass ==
    /\ pc = "returned" /\ pass = 1
    /\ analysis_text' = result_text
    /\ pass' = 2
    /\ pc' = "parse"
    /\ UNCHANGED <<runVars, segment_mapping, url_ok, references, ref_pos,
                   modified_text, result_text, normVars, mergeVars>>

NextCiteTwice == NextCite \/ SecondPass

SpecCiteTwice == InitCite /\ [][NextCiteTwice]_vars

(***************************************************************************)
(* Reading a transcript back: what a consumer of the wire format sees.     *)
(***************************************************************************)
\* the id a line carries: the tokens between its first "[" and first "]"
LineId(line) == SubSeq(line, 2, FirstAt(line, "]", 2) - 1)

\* hours * 3600 + minutes * 60 + seconds of an HH:MM:SS timestamp
TimestampSeconds(timestamp) ==
    LET time_parts == Split(timestamp, ":")
    IN  IntOf(time_parts[1]) * 3600 + IntOf(time_parts[2]) * 60
            + IntOf(time_parts[3])

MergedLine(m) == MatchLine(all_segments[m])

\* the line of the chunk's readable transcript a merged segment was read from
LocalLine(m) ==
    MatchLine(Strip(Split(ConvertToHumanReadable(
        chunk_transcripts[origin[m].chunk].data), "\n")[origin[m].line]))

NewlineCount(s) == Cardinality({i \in 1..Len(s) : s[i] = "\n"})

RECURSIVE FirstLineOf(_, _)
\* the line of the joined transcript on which segment k of segments begins
FirstLineOf(segments, k) ==
    IF k = 1 THEN 1
    ELSE FirstLineOf(segments, k - 1) + 1
            + NewlineCount(segments[k - 1].text)

\* the segments of the chunk's Normalizer output that begin on the line a
\* merged segment was read from (none when the line continues a text)
SourceSegments(m) ==
    LET segments == ConvertSegments(chunk_transcripts[origin[m].chunk].data)
    IN  {segments[k] : k \in {q \in 1..Len(segments) :
                                FirstLineOf(segments, q) = origin[m].line}}

(***************************************************************************)
(* C1: the transcript the Normalizer emits with k segments carries exactly *)
(* the ids seg_0 .. seg_{k-1}, in order.                                   *)
(***************************************************************************)
C1_DenseNumbering ==
    pc = "converted" =>
        \A i \in 1..Len(output_lines) : LineId(output_lines[i]) = SegId(i - 1)

(***************************************************************************)
(* C2: in every transcript, single or merged, adjacent segments satisfy    *)
(* start_time[i] <= start_time[i+1].                                       *)
(***************************************************************************)
C2_MonotonicTimestamps ==
    /\ pc = "converted" =>
        LET segments == ConvertSegments(transcript_data)
        IN  \A i \in 1..(Len(segments) - 1) :
                segments[i].seconds <= segments[i + 1].seconds
    /\ pc = "merged" =>
        \A m \in 1..(Len(all_segments) - 1) :
            TimestampSeconds(MergedLine(m).timestamp)
                <= TimestampSeconds(MergedLine(m + 1).timestamp)

(***************************************************************************)
(* C3: every segment the merge emits from a chunk carries the chunk-local  *)
(* timestamp (whole seconds) plus the chunk's start offset, as HH:MM:SS,   *)
(* and the chunk-local text unchanged.                                     *)
(***************************************************************************)
C3_MergeAdditivity ==
    pc = "merged" =>
        \A m \in 1..Len(all_segments) :
            \E src \in SourceSegments(m) :
                /\ MergedLine(m).timestamp =
                     FormatTimestamp(src.seconds
                        + chunk_transcripts[origin[m].chunk].chunk_start_time)
                /\ MergedLine(m).text = src.text

(***************************************************************************)
(* C4: two merged segments carry the same global speaker label exactly     *)
(* when they come from the same chunk and have the same chunk-local        *)
(* speaker label; the labels are spk_0, spk_1, ... in order of first       *)
(* appearance.                                                             *)
(***************************************************************************)
C4_SpeakerIdentity ==
    pc = "merged" =>
        /\ \A m, n \in 1..Len(all_segments) :
                MergedLine(m).speaker = MergedLine(n).speaker
                <=> /\ origin[m].chunk = origin[n].chunk
                    /\ LocalLine(m).speaker = LocalLine(n).speaker
        /\ \A m \in 1..Len(all_segments) :
                MergedLine(m).speaker =
                    SpkLabel(Cardinality({MergedLine(n).speaker :
                                            n \in 1..(m - 1)} \
                                         {MergedLine(m).speaker}))

(***************************************************************************)
(* C5: serialising the emitted segments and re-parsing the newline-split,  *)
(* stripped lines with the line pattern yields exactly one tuple per       *)
(* segment, equal to its (segment_id, speaker, timestamp, text).           *)
(***************************************************************************)
C5_RoundTrip ==
    pc = "converted" /\ ~Unexpected(transcript_data) /\ ~Raises(transcript_data)
    =>  LET lines == StrippedLines(readable)
            segments == ConvertSegments(transcript_data)
        IN  /\ Len(lines) = Len(segments)
            /\ \A i \in 1..Len(lines) :
                    MatchLine(lines[i]) =
                        [matched   |-> TRUE,
                         seg_id    |-> segments[i].segment_id,
                         speaker   |-> segments[i].speaker,
                         timestamp |-> FormatTimestamp(segments[i].seconds),
                         text      |-> segments[i].text]

(***************************************************************************)
(* Reading an annotated text: the input with annotations put in by hand.   *)
(***************************************************************************)
\* "a URL comes back for the first segment of the reference"
Resolvable(ref) ==
    /\ Len(ref.segments) > 0
    /\ ref.segments[1] \in DOMAIN segment_mapping
    /\ segment_mapping[ref.segments[1]] \in url_ok

\* VIDEOLINK[url]ENDLINK with the URL of the reference's first segment
AnnotationOf(ref) ==
    <<"VIDEOLINK", "[">> \o VideoUrl(segment_mapping[ref.segments[1]])
        \o <<"]", "ENDLINK">>

\* text from the end of reference k - 1 on, left to right, with the
\* annotation of every reference in A put right after its marker
RECURSIVE AnnotatedFrom(_, _, _, _)
AnnotatedFrom(text, refs, A, k) ==
    LET from == IF k = 1 THEN 0 ELSE refs[k - 1].end
    IN  IF k > Len(refs) THEN Slice(text, from, Len(text))
        ELSE Slice(text, from, refs[k].end)
                \o (IF k \in A THEN AnnotationOf(refs[k]) ELSE <<>>)
                \o AnnotatedFrom(text, refs, A, k + 1)

\* the references whose first segment the index knows
Indexed(refs) ==
    {k \in 1..Len(refs) : /\ Len(refs[k].segments) > 0
                          /\ refs[k].segments[1] \in DOMAIN segment_mapping}

\* the text without its VIDEOLINK[...]ENDLINK runs
RECURSIVE RemoveAnnotations(_)
RemoveAnnotations(text) ==
    IF Len(text) = 0 THEN <<>>
    ELSE IF text[1] = "VIDEOLINK"
    THEN RemoveAnnotations(SubSeq(text, FirstAt(text, "ENDLINK", 1) + 1,
                                  Len(text)))
    ELSE <<text[1]>> \o RemoveAnnotations(Tail(text))

\* reference k of the input is followed by its annotation in the output
AnnotatedInResult(k) ==
    \E A \in SUBSET Indexed(references) :
        k \in A /\ result_text = AnnotatedFrom(analysis_text, references, A, 1)

(***************************************************************************)
(* C6: an accepted citation marker is annotated if and only if the first   *)
(* segment id of its set is in the index and the link builder returns a    *)
(* URL, built from that first segment's timestamp; otherwise the marker is *)
(* in the output unchanged.                                                *)
(***************************************************************************)
C6_AnnotatedIffResolvable ==
    pc = "returned" =>
        result_text =
            AnnotatedFrom(analysis_text, references,
                {k \in 1..Len(references) : Resolvable(references[k])}, 1)

(***************************************************************************)
(* C7: the output is the input with an annotation inserted right after     *)
(* each resolved marker and nothing else changed; deleting the annotations *)
(* gives back the input.                                                   *)
(***************************************************************************)
C7_OnlyAnnotationsInserted ==
    pc = "returned" =>
        /\ \E A \in SUBSET Indexed(references) :
                result_text = AnnotatedFrom(analysis_text, references, A, 1)
        /\ RemoveAnnotations(result_text) = analysis_text

C7_Witness ==
    /\ pc = "returned"
    /\ Len(references) >= 2
    /\ Cardinality({i \in 1..Len(result_text) :
                        result_text[i] = "VIDEOLINK"}) >= 2

(***************************************************************************)
(* C8: a second resolution pass over the first pass's output returns it    *)
(* unchanged: no resolved marker gets a second annotation.                 *)
(***************************************************************************)
C8_Idempotent ==
    pc = "returned" /\ pass = 2 => result_text = analysis_text

(***************************************************************************)
(* C9: the references parse_segment_references returns are in ascending    *)
(* start position and pairwise non-overlapping, every one is a match of    *)
(* one of the three patterns, and a match is left out only if a kept match *)
(* that starts earlier, or at the same place and is at least as long,      *)
(* overlaps it; [seg_1-2] yields the one range reference.                  *)
(***************************************************************************)
C9_NonOverlappingReferences ==
    pc \in {"replace", "returned"} =>
        LET raw == RawReferences(analysis_text)
            refs == references
        IN  /\ \A k \in 1..(Len(refs) - 1) : refs[k].end <= refs[k + 1].start
            /\ \A k \in 1..Len(refs) : \E i \in 1..Len(raw) : raw[i] = refs[k]
            /\ \A i \in 1..Len(raw) :
                \/ \E k \in 1..Len(refs) : refs[k] = raw[i]
                \/ \E k \in 1..Len(refs) :
                    /\ refs[k].start < raw[i].end
                    /\ raw[i].start < refs[k].end
                    /\ \/ refs[k].start < raw[i].start
                       \/ /\ refs[k].start = raw[i].start
                          /\ refs[k].end >= raw[i].end
            /\ analysis_text = <<"[", "seg_", "1", "-", "2", "]">> =>
                refs = <<[original |-> analysis_text,
                          segments |-> <<SegId(1), SegId(2)>>,
                          start |-> 0, end |-> 6]>>

C9_Witness ==
    /\ pc = "replace"
    /\ analysis_text =
            <<"[", "seg_", "1", "-", "2", "]", "[", "seg_", "1", "]">>
    /\ Len(references) = 2

(***************************************************************************)
(* C10: an unresolvable citation is left as is while processing goes on:   *)
(* every other citation of the text that is resolvable is annotated.       *)
(***************************************************************************)
C10_LocalRecovery ==
    pc = "returned" =>
        \A k \in 1..Len(references) :
            Resolvable(references[k]) => AnnotatedInResult(k)

(***************************************************************************)
(* C11: replace_segment_citations_with_links never raises: every call ends *)
(* by returning a text, and when an exception occurred inside (the segment *)
(* list of a reference was empty) the text returned is the whole original  *)
(* analysis text.                                                          *)
(***************************************************************************)
ExceptionOccurs ==
    \E k \in 1..Len(references) : Len(references[k].segments) = 0

C11_NeverRaises ==
    /\ pc \in {"parse", "replace", "returned"}
    /\ pc = "returned" /\ ExceptionOccurs => result_text = analysis_text

C11_Witness ==
    /\ pc = "returned"
    /\ ExceptionOccurs
    /\ \E k \in 1..Len(references) : Resolvable(references[k])

(***************************************************************************)
(* C12: a range citation written with its end below its start, in either   *)
(* range form, has an empty segment set and is left unresolved: the marker *)
(* is in the output unchanged, with no annotation after it.                *)
(***************************************************************************)
\* marker k of the input stands in the result right after position i
MarkerAt(k, i) ==
    /\ RemoveAnnotations(SubSeq(result_text, 1, i))
            = Slice(analysis_text, 0, references[k].start)
    /\ SubSeq(result_text, i + 1, i + Len(references[k].original))
            = references[k].original

\* the marker is a range, of either form, whose end is below its start
ReversedRange(ref) ==
    LET m1 == MatchRange1(ref.original, 1)
        m2 == MatchRange2(ref.original, 1)
    IN  \/ m1.ok /\ IntOf(m1.g2) < IntOf(m1.g1)
        \/ m2.ok /\ IntOf(m2.g2) < IntOf(m2.g1)

C12_ReversedRangeUnresolved ==
    pc = "returned" =>
        \A k \in 1..Len(references) :
            ReversedRange(references[k]) =>
                /\ references[k].segments = <<>>
                /\ \E i \in 0..Len(result_text) :
                    /\ MarkerAt(k, i)
                    /\ At(result_text, i + Len(references[k].original) + 1)
                            # "VIDEOLINK"

C12_Witness ==
    /\ pc = "returned"
    /\ \E k, j \in 1..Len(references) :
            /\ references[k].original = <<"[", "seg_", "2", "-", "1", "]">>
            /\ references[j].original
                    = <<"[", "seg_", "2", "-", "seg_", "1", "]">>

(***************************************************************************)
(* C13: if a transcription result of a chunked event is not COMPLETED, the *)
(* handler raises before any chunk transcript is fetched, normalised or    *)
(* merged and before anything is written.                                  *)
(***************************************************************************)
SomeNotCompleted ==
    \E i \in 1..Len(event.results) : event.results[i].status # "COMPLETED"

C13_FailFast ==
    SomeNotCompleted =>
        /\ pc \in {"extract", "failed"}
        /\ chunk_transcripts = <<>>
        /\ all_segments = <<>>
        /\ merged_transcript = <<>>
        /\ stored = NotStored
        /\ status_code = 0

C13_Witness ==
    /\ pc = "failed"
    /\ SomeNotCompleted
    /\ Len(chunks_data) >= 1

(***************************************************************************)
(* C17: a merged transcript of k segments carries exactly the ids seg_0 .. *)
(* seg_{k-1} in emission order for every chunk list, chunks that emit no   *)
(* segment included: an empty chunk neither stops the merge nor leaves a   *)
(* gap or a duplicate in the numbering.                                    *)
(***************************************************************************)
\* the lines of the merged transcript
MergedLines ==
    IF merged_transcript = <<>> THEN <<>> ELSE Split(merged_transcript, "\n")

\* chunk p of the merge emits no segment
EmptyChunk(p) == \A m \in 1..Len(origin) : origin[m].chunk # p

Decomposable(timestamp) ==
    LET time_parts == Split(timestamp, ":")
    IN  Len(time_parts) = 3 /\ \A k \in 1..3 : IntOk(time_parts[k])

\* line j of chunk p's readable transcript, stripped and matched
ChunkLine(p, j) ==
    MatchLine(Strip(Split(ConvertToHumanReadable(chunk_transcripts[p].data),
                          "\n")[j]))

C20_SkipsBadTimestamps ==
    /\ ~SomeNotCompleted => pc # "failed"
    /\ pc \in {"merged", "done"} =>
            \A p \in 1..Len(chunk_transcripts) :
                \A j \in 1..Len(Split(ConvertToHumanReadable(
                                        chunk_transcripts[p].data), "\n")) :
                    ChunkLine(p, j).matched
                        /\ Decomposable(ChunkLine(p, j).timestamp)
                    => \E m \in 1..Len(origin) :
                            origin[m] = [chunk |-> p, line |-> j]

(***************************************************************************)
(* C14: convert_to_human_readable never raises: for every raw result it    *)
(* returns a value; for a result without the top-level structure the value *)
(* is the unexpected-format marker, for a result that makes the conversion *)
(* fail it is the could-not-process marker, and neither holds a segment    *)
(* line.                                                                   *)
(***************************************************************************)
NoSegmentLine(text) ==
    \A i \in 1..Len(StrippedLines(text)) :
        ~MatchLine(StrippedLines(text)[i]).matched

C14_NormalizerNeverRaises ==
    /\ pc \in {"convert", "converted"}
    /\ pc = "converted" =>
            /\ Unexpected(transcript_data) =>
                    readable = UnexpectedFormat /\ NoSegmentLine(readable)
            /\ Raises(transcript_data) =>
                    readable = CouldNotProcess /\ NoSegmentLine(readable)

C14_Witness ==
    /\ pc = "converted"
    /\ ~transcript_data.has_results
    /\ readable = UnexpectedFormat

(***************************************************************************)
(* C15: when the raw result of a single transcription is unprocessable the *)
(* handler invocation ends by raising: the marker is not stored as the     *)
(* transcript and no statusCode 200 result is returned.                    *)
(***************************************************************************)
Unprocessable(data) == Unexpected(data) \/ Raises(data)

C15_FailurePropagates ==
    Unprocessable(transcript_data) =>
        /\ pc # "done"
        /\ ~stored.written
        /\ status_code # 200

(***************************************************************************)
(* C16: a raw result of the segment-grouped shape alone (audio_segments,   *)
(* neither items nor speaker_labels) is accepted and converted to one      *)
(* segment per audio segment; it is not reported as unprocessable.         *)
(***************************************************************************)
C16_SegmentGroupedAccepted ==
    pc = "converted" /\ transcript_data \in AudioOnlyRaws =>
        /\ readable # UnexpectedFormat
        /\ readable # CouldNotProcess
        /\ Len(output_lines) = Len(transcript_data.audio_segments)

(***************************************************************************)
(* C18: the segment mapping built from a transcript has exactly one entry  *)
(* per segment: its keys are the segment ids of the transcript and each id *)
(* maps to the HH:MM:SS timestamp of that segment.                         *)
(***************************************************************************)
C18_MappingPerSegment ==
    pc = "done" /\ ~Unprocessable(transcript_data) =>
        LET segments == ConvertSegments(transcript_data)
        IN  /\ DOMAIN segment_mapping =
                    {segments[i].segment_id : i \in 1..Len(segments)}
            /\ \A i \in 1..Len(segments) :
                    segment_mapping[segments[i].segment_id]
                        = FormatTimestamp(segments[i].seconds)

(***************************************************************************)
(* C19: the segment and speaker counters of a merge are private to the     *)
(* call: however the steps of several calls interleave, each call returns  *)
(* (or raises) what it returns (or raises) when run alone, and its first   *)
(* segment is seg_0 and its first speaker spk_0.                           *)
(***************************************************************************)
\* merge_chunked_transcripts run on its own, from chunk p on
RECURSIVE MergeFrom(_, _, _)
MergeFrom(chunks, p, st) ==
    IF p > Len(chunks) \/ st.raised THEN st
    ELSE MergeFrom(chunks, p + 1, MergeOneChunk(chunks[p], p, st))

MergeAlone(chunks) ==
    MergeFrom(chunks, 1,
              [raised |-> FALSE, all_segments |-> <<>>,
               global_segment_counter |-> 0, speaker_mapping |-> NoFunction,
               global_speaker_counter |-> 0, origin |-> <<>>])

C19_CountersPerCall ==
    \A c \in 1..Len(calls) :
        /\ calls[c].pc = "returned" =>
            /\ ~MergeAlone(calls[c].chunk_transcripts).raised
            /\ calls[c].merged_transcript =
                    Join(MergeAlone(calls[c].chunk_transcripts).all_segments,
                         "\n")
            /\ calls[c].all_segments # <<>> =>
                    /\ MatchLine(calls[c].all_segments[1]).seg_id = SegId(0)
                    /\ MatchLine(calls[c].all_segments[1]).speaker
                            = SpkLabel(0)
        /\ calls[c].pc = "raised" =>
                MergeAlone(calls[c].chunk_transcripts).raised

C19_Witness ==
    /\ pc = "calls"
    /\ \A c \in 1..Len(calls) :
            calls[c].pc = "returned" /\ Len(calls[c].all_segments) >= 2
    /\ calls[1].chunk_transcripts # calls[2].chunk_transcripts

(***************************************************************************)
(* C21: when audio segments are present the Normalizer emits exactly one   *)
(* line per audio segment, in ascending start_time order with segments of  *)
(* equal start_time in their original order, and the segment at position i *)
(* gets the id seg_i with its own speaker label and transcript.            *)
(***************************************************************************)
C21_SegmentGrouped ==
    pc = "converted" /\ transcript_data.has_audio_segments =>
        LET audio == transcript_data.audio_segments
            n == Len(audio)
        IN  /\ Len(output_lines) = n
            /\ \E perm \in [1..n -> 1..n] :
                /\ \A i, j \in 1..n : i # j => perm[i] # perm[j]
                /\ \A i, j \in 1..n : i < j =>
                    \/ audio[perm[i]].start_time < audio[perm[j]].start_time
                    \/ /\ audio[perm[i]].start_time
                                = audio[perm[j]].start_time
                       /\ perm[i] < perm[j]
                /\ \A i \in 1..n :
                    output_lines[i] =
                        FormatLine(SegId(i - 1), audio[perm[i]].speaker_label,
                            FormatTimestamp(
                                WholeSeconds(audio[perm[i]].start_time)),
                            audio[perm[i]].transcript)

(***************************************************************************)
(* C22: on the token path each pronunciation token is attributed to at     *)
(* most one emitted segment, whatever the diarization segments are         *)
(* (overlapping or nested intervals included).                             *)
(***************************************************************************)
C22_SingleAttribution ==
    pc = "converted" /\ ~Unexpected(transcript_data)
        /\ ~Raises(transcript_data) /\ ~transcript_data.has_audio_segments =>
        LET dict == ItemsDict(transcript_data.items)
            segments == transcript_data.speaker_labels
            holds(i, e) == LET segment_items == SegmentItems(dict, segments[i])
                           IN  \E k \in 1..Len(segment_items) :
                                    segment_items[k] = e
        IN  \A p \in 1..Len(dict) :
                dict[p].item.type = "pronunciation" =>
                    Cardinality({i \in 1..Len(segments) :
                                    holds(i, dict[p])}) <= 1

(***************************************************************************)
(* C23: on the token path the text of an emitted segment is its            *)
(* pronunciation tokens in order, consecutive tokens separated by exactly  *)
(* one space, and the punctuation token with id N + 1 directly after the   *)
(* pronunciation token with id N: the text does not begin with a space and *)
(* no punctuation token is preceded by a space.                            *)
(***************************************************************************)
IsTokenPath(data) ==
    ~Unexpected(data) /\ ~Raises(data) /\ ~data.has_audio_segments

PunctuationContents ==
    {it.content[1] : it \in {x \in ItemPool : x.type = "punctuation"}}

ChunkTranscriptsOf(results, job_ids_len) ==
    LET data == [i \in 1..Len(results) |->
                    LET chunk_index == ChunkIndex(results[i].job_name, i - 1)
                    IN  [data |-> S3Object(results[i].transcript_key),
                         chunk_index |-> chunk_index,
                         chunk_start_time |->
                            ChunkStartTime(chunk_index, i - 1, job_ids_len),
                         job_name |-> results[i].job_name]]
    IN  SortedBy(data, [i \in 1..Len(data) |-> ChunkIndexOf(data[i])])

C24_ChunkOrder ==
    pc = "merged" =>
        LET k == Len(event.results)
        IN  /\ \A a, b \in 1..Len(origin) : a < b =>
                    chunk_transcripts[origin[a].chunk].chunk_index
                        <= chunk_transcripts[origin[b].chunk].chunk_index
            /\ \A perm \in [1..k -> 1..k] :
                    (\A i, j \in 1..k : i # j => perm[i] # perm[j]) =>
                        /\ Join(MergeAlone(ChunkTranscriptsOf(
                                [i \in 1..k |-> event.results[perm[i]]],
                                event.job_ids_len)).all_segments, "\n")
                            = merged_transcript
                        /\ Join(MergeAlone(
                                [i \in 1..k |-> chunk_transcripts[perm[i]]]
                                ).all_segments, "\n")
                            = merged_transcript

(***************************************************************************)
(* C25: on the token path no token is lost: every pronunciation token      *)
(* whose start_time lies in the interval of exactly one diarization        *)
(* segment appears in the line of that segment, once for each item that    *)
(* carries it, also when items have no id or share an id.                  *)
(***************************************************************************)
C25_NoTokenLost ==
    pc = "converted" /\ IsTokenPath(transcript_data) =>
        LET items == transcript_data.items
            segments == transcript_data.speaker_labels
            within(k) == {i \in 1..Len(segments) :
                            /\ segments[i].start_time <= items[k].start_time
                            /\ items[k].start_time < segments[i].end_time}
        IN  \A k \in 1..Len(items) :
                /\ items[k].type = "pronunciation"
                /\ items[k].has_alternatives
                /\ Cardinality(within(k)) = 1
                => \E s \in within(k) : \E i \in 1..Len(output_lines) :
                    LET m == MatchLine(output_lines[i])
                    IN  /\ m.speaker = segments[s].speaker_label
                        /\ m.timestamp = FormatTimestamp(
                                WholeSeconds(segments[s].start_time))
                        /\ Cardinality({j \in 1..Len(m.text) :
                                <<m.text[j]>> = items[k].content})
                            = Cardinality({j \in 1..Len(items) :
                                            items[j] = items[k]})

(***************************************************************************)
(* C26: a chunk whose raw result the Normalizer cannot process is dropped  *)
(* by the merge without a sign: it contributes no segment, the merge does  *)
(* not raise because of it, and the merged transcript is the one the       *)
(* remaining chunks give on their own, with dense ids and their own        *)
(* offsets.                                                                *)
(***************************************************************************)
C26_DropsUnprocessable ==
    /\ pc \in {"merged", "done"} =>
            LET rest == SelectSeq(chunk_transcripts,
                                  LAMBDA c : ~Unprocessable(c.data))
            IN  /\ \A p \in 1..Len(chunk_transcripts) :
                        Unprocessable(chunk_transcripts[p].data)
                            => EmptyChunk(p)
                /\ all_segments = MergeAlone(rest).all_segments
                /\ merged_transcript = Join(MergeAlone(rest).all_segments, "\n")
    /\ pc = "merge" /\ chunk_pos < Len(chunk_transcripts)
        /\ Unprocessable(chunk_transcripts[chunk_pos + 1].data)
        => ~MergeOneChunk(chunk_transcripts[chunk_pos + 1], chunk_pos + 1,
                          MergeState).raised
    /\ pc = "failed" /\ ~SomeNotCompleted =>
            ~Unprocessable(chunk_transcripts[chunk_pos + 1].data)

\* an unprocessable first chunk, then a chunk with an offset and two segments
C26_Witness ==
    /\ pc = "merged"
    /\ Len(chunk_transcripts) = 2
    /\ Unprocessable(chunk_transcripts[1].data)
    /\ chunk_transcripts[2].chunk_start_time > 0
    /\ Len(all_segments) >= 2

(***************************************************************************)
(* process_transcript_analysis, step by step: the transcript is put, the   *)
(* segment mapping built, then inside one try block the prompt and the     *)
(* agenda are fetched, the model is called, the citations are linked (the  *)
(* actions of replace_segment_citations_with_links above), the analysis is *)
(* put and the HTML generated inside a try block of its own.               *)
(***************************************************************************)
MaxReplyPieces == 1   \* pieces of the analysis text the model returns

\* f"transcripts/{job_name}_human_readable.txt",
\* f"analysis/{job_name}_analysis.txt" and the key generate_html_from_analysis
\* returns, for the one job_name of the model
HumanReadableKey == "transcripts/job_human_readable.txt"
AnalysisKey == "analysis/job_analysis.txt"
HtmlKey == "analysis/job_analysis.html"

\* what the analysis steps never change
ptaFixed == <<transcript_data, output_lines, readable, mergeVars, job_status,
              calls, job_ids, jobVars, planVars, pollVars, url_ok, pass,
              agenda_data, video_info>>

InitAnalysis ==
    /\ pc = "store"
    /\ readable \in {ConvertToHumanReadable(r) : r \in CiteRaws}
                        \cup {UnexpectedFormat}
    /\ agenda_data \in BOOLEAN
    /\ video_info \in {"none", "incomplete", "complete"}
    /\ url_ok \in UrlChoices(BuildSegmentTimestampMapping(readable))
    /\ transcript_data = NoRaw /\ output_lines = <<>>
    /\ analysis_text = <<>> /\ segment_mapping = NoFunction
    /\ references = <<>> /\ ref_pos = 0 /\ modified_text = <<>>
    /\ result_text = <<>> /\ pass = 0
    /\ job_status = "COMPLETED" /\ stored = NotStored /\ status_code = 0
    /\ calls = <<>> /\ returned = NoResult /\ job_ids = <<>>
    /\ analysis_result = <<>> /\ analysis_success = FALSE
    /\ html_success = FALSE /\ analysis_error = "None" /\ saved = {}
    /\ MergeIdle /\ JobIdle /\ PlanIdle /\ PollIdle

\* s3_client.put_object of the transcript, then
\* segment_mapping = build_segment_timestamp_mapping(...)
StoreTranscript ==
    /\ pc = "store"
    /\ stored' = [written |-> TRUE, body |-> readable]
    /\ segment_mapping' = BuildSegmentTimestampMapping(readable)
    /\ pc' = "prompt"
    /\ UNCHANGED <<ptaFixed, status_code, analysis_text, references, ref_pos,
                   modified_text, result_text, returned, analysis_result,
                   analysis_success, html_success, analysis_error, saved>>

\* the put_object of the transcript raises: it is outside every try block
StoreRaises ==
    /\ pc = "store"
    /\ pc' = "failed"
    /\ UNCHANGED <<ptaFixed, stored, segment_mapping, status_code,
                   analysis_text, references, ref_pos, modified_text,
                   result_text, returned, analysis_result, analysis_success,
                   html_success, analysis_error, saved>>

\* prompt_template = fetch_s3_text_content(external_bucket, prompt_key)
FetchPrompt ==
    /\ pc = "prompt"
    /\ pc' = "agenda"
    /\ UNCHANGED <<ptaFixed, stored, segment_mapping, status_code,
                   analysis_text, references, ref_pos, modified_text,
                   result_text, returned, analysis_result, analysis_success,
                   html_success, analysis_error, saved>>

\* agenda_text from agenda_data["analysis_data"], or fetched from S3
AgendaText ==
    /\ pc = "agenda"
    /\ pc' = "bedrock"
    /\ UNCHANGED <<ptaFixed, stored, segment_mapping, status_code,
                   analysis_text, references, ref_pos, modified_text,
                   result_text, returned, analysis_result, analysis_success,
                   html_success, analysis_error, saved>>

\* analysis_result = analyze_transcript_with_bedrock(...); with video_info
\* complete and a segment mapping that is not empty the citations are linked
\* next, else the analysis is saved as it is
Analyze ==
    /\ pc = "bedrock"
    /\ \E k \in 0..MaxReplyPieces : \E q \in [1..k -> Pieces] :
            /\ analysis_result' = Concat(q)
            /\ analysis_text' = Concat(q)
    /\ pc' = IF video_info = "complete" /\ DOMAIN segment_mapping # {}
             THEN "parse" ELSE "save"
    /\ UNCHANGED <<ptaFixed, stored, segment_mapping, status_code,
                   references, ref_pos, modified_text, result_text, returned,
                   analysis_success, html_success, analysis_error, saved>>

\* analysis_result = replace_segment_citations_with_links(...)
LinksReturned ==
    /\ pc = "returned"
    /\ analysis_result' = result_text
    /\ pc' = "save"
    /\ UNCHANGED <<ptaFixed, stored, segment_mapping, status_code,
                   analysis_text, references, ref_pos, modified_text,
                   result_text, returned, analysis_success, html_success,
                   analysis_error, saved>>

\* s3_client.put_object of the analysis under analysis_key
SaveAnalysis ==
    /\ pc = "save"
    /\ saved' = saved \cup {AnalysisKey}
    /\ pc' = "html"
    /\ UNCHANGED <<ptaFixed, stored, segment_mapping, status_code,
                   analysis_text, references, ref_pos, modified_text,
                   result_text, returned, analysis_result, analysis_success,
                   html_success, analysis_error>>

\* html_key = generate_html_from_analysis(...); html_success = True;
\* analysis_success = True
GenerateHtml ==
    /\ pc = "html"
    /\ saved' = saved \cup {HtmlKey}
    /\ html_success' = TRUE
    /\ analysis_success' = TRUE
    /\ pc' = "result"
    /\ UNCHANGED <<ptaFixed, stored, segment_mapping, status_code,
                   analysis_text, references, ref_pos, modified_text,
                   result_text, returned, analysis_result, analysis_error>>

\* except Exception as html_e: html_success = False; analysis_success = True
HtmlFails ==
    /\ pc = "html"
    /\ html_success' = FALSE
    /\ analysis_success' = TRUE
    /\ pc' = "result"
    /\ UNCHANGED <<ptaFixed, stored, segment_mapping, status_code,
                   analysis_text, references, ref_pos, modified_text,
                   result_text, returned, analysis_result, analysis_error,
                   saved>>

\* a slip: no except clause around the analysis, the exception leaves the
\* function
AnalysisFailureRaises ==
    /\ pc \in {"prompt", "agenda", "bedrock", "save"}
    /\ analysis_error' = pc
    /\ pc' = "failed"
    /\ UNCHANGED <<ptaFixed, stored, segment_mapping, status_code,
                   analysis_text, references, ref_pos, modified_text,
                   result_text, returned, analysis_result, analysis_success,
                   html_success, saved>>

\* except Exception as e: a step of the try block raised; analysis_success =
\* False, analysis_result = None, html_success = False
AnalysisFails ==
    /\ pc \in {"prompt", "agenda", "bedrock", "save"}
    /\ analysis_error' = pc
    /\ analysis_success' = FALSE
    /\ analysis_result' = <<>>
    /\ html_success' = FALSE
    /\ pc' = "result"
    /\ UNCHANGED <<ptaFixed, stored, segment_mapping, status_code,
                   analysis_text, references, ref_pos, modified_text,
                   result_text, returned, saved>>

\* the result dict (its message and the two lengths are left out)
ResultDict ==
    LET result == [statusCode |-> 200,
                   humanReadableKey |-> HumanReadableKey,
                   analysisCompleted |-> analysis_success,
                   htmlGenerated |-> html_success,
                   pdfGenerated |-> FALSE]
    IN  IF analysis_success
        THEN IF html_success
             THEN result @@ [analysisKey |-> AnalysisKey, htmlKey |-> HtmlKey]
             ELSE result @@ [analysisKey |-> AnalysisKey,
                             htmlError |-> "html_error"]
        ELSE result @@ [analysisError |-> analysis_error,
                        htmlError |-> "skipped", pdfError |-> "deferred"]

\* return result
ReturnResult ==
    /\ pc = "result"
    /\ returned' = ResultDict
    /\ status_code' = 200
    /\ pc' = "done"
    /\ UNCHANGED <<ptaFixed, stored, segment_mapping, analysis_text,
                   references, ref_pos, modified_text, result_text,
                   analysis_result, analysis_success, html_success,
                   analysis_error, saved>>

NextAnalysis ==
    \/ StoreTranscript \/ StoreRaises \/ FetchPrompt \/ AgendaText
    \/ Analyze \/ ParseReferences \/ ReturnNoReferences \/ Annotate
    \/ SkipNoUrl \/ SkipNoTimestamp \/ CatchException \/ ReturnModified
    \/ LinksReturned \/ SaveAnalysis \/ GenerateHtml \/ HtmlFails
    \/ AnalysisFails \/ ReturnResult

SpecAnalysis == InitAnalysis /\ [][NextAnalysis]_vars

(***************************************************************************)
(* C27: in process_transcript_analysis the transcript is stored before the *)
(* analysis is attempted, and a failure of an analysis step (prompt,       *)
(* agenda, model call, saving the analysis) is contained: the call returns *)
(* statusCode 200 with analysisCompleted and htmlGenerated false and an    *)
(* analysisError, humanReadableKey naming the stored transcript; in every  *)
(* result htmlGenerated implies analysisCompleted and pdfGenerated is      *)
(* false.                                                                  *)
(***************************************************************************)
C27_AnalysisContained ==
    /\ pc \notin {"store", "failed"} =>
            stored = [written |-> TRUE, body |-> readable]
    /\ pc = "store" =>
            analysis_text = <<>> /\ saved = {} /\ analysis_error = "None"
    /\ pc = "failed" => ~stored.written /\ analysis_error = "None"
    /\ analysis_error # "None" => pc \in {"result", "done"}
    /\ pc = "done" =>
            /\ returned.statusCode = 200
            /\ returned.humanReadableKey = HumanReadableKey
            /\ returned.htmlGenerated => returned.analysisCompleted
            /\ ~returned.pdfGenerated
            /\ analysis_error # "None" =>
                    /\ ~returned.analysisCompleted
                    /\ ~returned.htmlGenerated
                    /\ "analysisError" \in DOMAIN returned
                    /\ HtmlKey \notin saved

\* the model call failed, and the result was returned all the same
C27_Witness ==
    /\ pc = "done"
    /\ analysis_error = "bedrock"
    /\ returned.statusCode = 200
    /\ stored.written

(***************************************************************************)
(* verify_s3_file: lambda_handler with "job_ids" in the event, and         *)
(* check_mediaconvert_jobs_status.                                         *)
(***************************************************************************)
MaxJobs == 2          \* job ids of one status request

JobIdPool == {"job-a", "job-b"}

\* what mediaconvert_client.get_job gives for one job: the Status of the
\* job, or an exception
JobOutcomes == {"SUBMITTED", "PROGRESSING", "COMPLETE", "CANCELED", "ERROR",
                "raise"}

\* what the status check never changes
jobFixed == <<normVars, mergeVars, citeVars, job_status, stored, status_code,
              calls, ptaVars, planVars, pollVars, job_ids, lookups>>

InitJobs ==
    /\ pc = "check"
    /\ \E k \in 0..MaxJobs :
            /\ job_ids \in [1..k -> JobIdPool]
            /\ lookups \in [1..k -> JobOutcomes]
    /\ job_statuses = <<>>
    /\ all_complete = TRUE
    /\ any_failed = FALSE
    /\ returned = NoResult
    /\ job_status = "COMPLETED" /\ stored = NotStored /\ status_code = 0
    /\ calls = <<>>
    /\ NormIdle /\ MergeIdle /\ CiteIdle /\ PtaIdle /\ PlanIdle /\ PollIdle

\* if not job_ids or not isinstance(job_ids, list): raise ValueError
RejectNoJobs ==
    /\ pc = "check"
    /\ job_ids = <<>>
    /\ pc' = "failed"
    /\ UNCHANGED <<jobFixed, returned, job_statuses, all_complete,
                   any_failed>>

\* one iteration of "for i, job_id in enumerate(job_ids)", get_job answers
CheckJob ==
    /\ pc = "check"
    /\ Len(job_statuses) < Len(job_ids)
    /\ LET i == Len(job_statuses)
           status == lookups[i + 1]
       IN  /\ status # "raise"
           /\ job_statuses' = Append(job_statuses,
                    [jobId |-> job_ids[i + 1], status |-> status,
                     index |-> i])
           /\ all_complete' = (all_complete /\ status = "COMPLETE")
           /\ any_failed' = (any_failed \/ status \in {"ERROR", "CANCELED"})
    /\ UNCHANGED <<pc, jobFixed, returned>>

\* a slip: no try block around the lookup, its exception ends the check
LookupAborts ==
    /\ pc = "check"
    /\ Len(job_statuses) < Len(job_ids)
    /\ lookups[Len(job_statuses) + 1] = "raise"
    /\ pc' = "failed"
    /\ UNCHANGED <<jobFixed, returned, job_statuses, all_complete,
                   any_failed>>

\* one iteration in which get_job raises: except Exception as e
LookupRaises ==
    /\ pc = "check"
    /\ Len(job_statuses) < Len(job_ids)
    /\ LET i == Len(job_statuses)
       IN  /\ lookups[i + 1] = "raise"
           /\ job_statuses' = Append(job_statuses,
                    [jobId |-> job_ids[i + 1], status |-> "ERROR",
                     error |-> "str(e)", index |-> i])
    /\ any_failed' = TRUE
    /\ all_complete' = FALSE
    /\ UNCHANGED <<pc, jobFixed, returned>>

\* return {"allComplete": ..., "completedJobs": ...}
ReturnJobStatus ==
    /\ pc = "check"
    /\ job_ids # <<>>
    /\ Len(job_statuses) = Len(job_ids)
    /\ returned' =
            [allComplete |-> all_complete, anyFailed |-> any_failed,
             jobStatuses |-> job_statuses, totalJobs |-> Len(job_ids),
             completedJobs |->
                Len(SelectSeq(job_statuses,
                              LAMBDA j : j.status = "COMPLETE"))]
    /\ pc' = "done"
    /\ UNCHANGED <<jobFixed, job_statuses, all_complete, any_failed>>

NextJobs == RejectNoJobs \/ CheckJob \/ LookupRaises \/ ReturnJobStatus

SpecJobs == InitJobs /\ [][NextJobs]_vars

(***************************************************************************)
(* C28: for a non-empty list of job ids check_mediaconvert_jobs_status     *)
(* returns one jobStatuses entry per job id in input order; allComplete    *)
(* holds exactly when every job reported COMPLETE, that is when            *)
(* completedJobs = totalJobs; anyFailed holds exactly when some job        *)
(* reported ERROR or CANCELED or its lookup raised; the two are never both *)
(* true; a lookup that raises is recorded as ERROR and the jobs after it   *)
(* are still checked.                                                      *)
(***************************************************************************)
C28_JobStatusSummary ==
    /\ pc = "failed" => job_ids = <<>>
    /\ pc = "done" =>
        LET n == Len(job_ids)
        IN  /\ n > 0
            /\ returned.totalJobs = n
            /\ Len(returned.jobStatuses) = n
            /\ \A i \in 1..n :
                /\ returned.jobStatuses[i].jobId = job_ids[i]
                /\ returned.jobStatuses[i].index = i - 1
                /\ returned.jobStatuses[i].status =
                        IF lookups[i] = "raise" THEN "ERROR" ELSE lookups[i]
            /\ returned.allComplete
                    <=> \A i \in 1..n : lookups[i] = "COMPLETE"
            /\ returned.allComplete
                    <=> returned.completedJobs = returned.totalJobs
            /\ returned.anyFailed
                    <=> \E i \in 1..n :
                            lookups[i] \in {"ERROR", "CANCELED", "raise"}
            /\ ~(returned.allComplete /\ returned.anyFailed)

\* the first lookup raised and the second job was still checked
C28_Witness ==
    /\ pc = "done"
    /\ Len(job_ids) = 2
    /\ lookups[1] = "raise"
    /\ returned.jobStatuses[2].status = "COMPLETE"

(***************************************************************************)
(* mediaconvert_trigger: lambda_handler for an event that names one        *)
(* recording, or none.  Durations are in ticks (TicksPerSecond to the      *)
(* second), as the float seconds of the code.                              *)
(***************************************************************************)
MaxWholeChunks == 2   \* whole four-hour chunks in the longest recording

CHUNK_DURATION_HOURS == 4
DURATION_THRESHOLD_HOURS == 4

\* CHUNK_DURATION_HOURS * 3600, in ticks
ChunkTicks == CHUNK_DURATION_HOURS * 3600 * TicksPerSecond

\* should_split_video: (duration_seconds or 0) / 3600 > DURATION_THRESHOLD_HOURS
ShouldSplitVideo(d) == d > DURATION_THRESHOLD_HOURS * 3600 * TicksPerSecond

\* a slip: math.floor in place of math.ceil
CalculateChunksFloor(d) == d \div ChunkTicks

\* calculate_chunks: math.ceil((duration_seconds / 3600) / CHUNK_DURATION_HOURS)
CalculateChunks(d) == (d + ChunkTicks - 1) \div ChunkTicks

\* the durations MediaInfo reports: 0 stands for no duration (None), the
\* others lie at, just above and just below a whole number of chunks
DurationPool ==
    {c * ChunkTicks + d : c \in 0..MaxWholeChunks, d \in {0, 1, ChunkTicks - 1}}

\* the ids MediaConvert gives to the jobs it creates
JobIds == 1..(MaxWholeChunks + 2)

\* object keys as they arrive in the event
KeyPool == { <<"uploads", "/", "board", ".", "mp4">>,
             <<"my", "+", "talk", ".", "v2", ".", "mov">> }

\* unquote_plus(key): "+" stands for a space (the keys hold no % escape)
UnquotePlus(k) == [i \in 1..Len(k) |-> IF k[i] = "+" THEN " " ELSE k[i]]

\* the last position of c in s, 0 when there is none
LastAt(s, c) ==
    IF \E i \in 1..Len(s) : s[i] = c
    THEN CHOOSE i \in 1..Len(s) : s[i] = c /\ \A j \in (i + 1)..Len(s) : s[j] # c
    ELSE 0

\* os.path.splitext(os.path.basename(key))[0]
BaseFilename(k) ==
    LET base == SubSeq(k, LastAt(k, "/") + 1, Len(k))
        dot == LastAt(base, ".")
    IN  IF dot > 1 THEN SubSeq(base, 1, dot - 1) ELSE base

\* f"audio/{base_filename}_part{part:02d}.mp3"
PartOutputKey(k, part) ==
    <<"audio", "/">> \o BaseFilename(k) \o <<"_part">> \o Pad2(part)
        \o <<".", "mp3">>

\* f"audio/{base_filename}_converted.mp3"
ConvertedOutputKey(k) ==
    <<"audio", "/">> \o BaseFilename(k) \o <<"_converted", ".", "mp3">>

\* f"s3://{target_bucket}/{k}"
S3Uri(bucket, k) == <<"s3://", bucket, "/">> \o k

\* what the trigger never changes
planFixed == <<normVars, mergeVars, citeVars, job_status, stored, status_code,
               calls, ptaVars, jobVars, pollVars, duration_seconds, inputKey>>

\* the event: inputBucket, inputKey and maybe outputBucket, or an event of
\* another shape, which yields no record
InitPlan ==
    /\ pc = "trigger"
    /\ duration_seconds \in DurationPool
    /\ inputKey \in KeyPool \cup {<<>>}
    /\ target_bucket \in {"None", "out-bucket"}
    /\ submitted = <<>>
    /\ job_ids = <<>>
    /\ audio_output_keys = <<>>
    /\ returned = NoResult
    /\ job_status = "COMPLETED" /\ stored = NotStored /\ status_code = 0
    /\ calls = <<>>
    /\ NormIdle /\ MergeIdle /\ CiteIdle /\ PtaIdle /\ JobIdle /\ PollIdle

\* the event is not in an expected format: records = []
NoRecords ==
    /\ pc = "trigger"
    /\ inputKey = <<>>
    /\ pc' = "summary"
    /\ UNCHANGED <<planFixed, returned, job_ids, target_bucket, submitted,
                   audio_output_keys>>

\* the head of the loop body: target bucket, duration, split or not
ProbeRecord ==
    /\ pc = "trigger"
    /\ inputKey # <<>>
    /\ target_bucket' = IF target_bucket = "None" THEN "in-bucket"
                        ELSE target_bucket
    /\ pc' = IF duration_seconds = 0 THEN "summary"
             ELSE IF ShouldSplitVideo(duration_seconds) THEN "chunks"
             ELSE "single"
    /\ UNCHANGED <<planFixed, returned, job_ids, submitted,
                   audio_output_keys>>

\* one iteration of "for part in range(1, num_chunks + 1)"
SubmitChunk ==
    /\ pc = "chunks"
    /\ Len(submitted) < CalculateChunks(duration_seconds)
    /\ LET part == Len(submitted) + 1
           num_chunks == CalculateChunks(duration_seconds)
           chunk_start == (part - 1) * ChunkTicks
           chunk_dur == IF duration_seconds - chunk_start < ChunkTicks
                        THEN duration_seconds - chunk_start ELSE ChunkTicks
       IN  \E id \in JobIds \ {job_ids[i] : i \in 1..Len(job_ids)} :
            /\ submitted' = Append(submitted,
                    [job_id |-> id,
                     input |-> UnquotePlus(inputKey),
                     chunk_info |->
                        <<[part_number |-> part,
                           start_time_seconds |-> chunk_start,
                           duration_seconds |-> chunk_dur,
                           total_chunks |-> num_chunks]>>])
            /\ job_ids' = Append(job_ids, id)
            /\ audio_output_keys' =
                    Append(audio_output_keys,
                           PartOutputKey(UnquotePlus(inputKey), part))
    /\ UNCHANGED <<pc, planFixed, returned, target_bucket>>

\* the loop over the parts is over
ChunksSubmitted ==
    /\ pc = "chunks"
    /\ Len(submitted) = CalculateChunks(duration_seconds)
    /\ pc' = "summary"
    /\ UNCHANGED <<planFixed, returned, job_ids, target_bucket, submitted,
                   audio_output_keys>>

\* the else branch: one job for the whole file, chunk_info=None
SubmitSingle ==
    /\ pc = "single"
    /\ \E id \in JobIds :
            /\ submitted' = Append(submitted,
                    [job_id |-> id, input |-> UnquotePlus(inputKey),
                     chunk_info |-> <<>>])
            /\ job_ids' = Append(job_ids, id)
    /\ audio_output_keys' =
            Append(audio_output_keys, ConvertedOutputKey(UnquotePlus(inputKey)))
    /\ pc' = "summary"
    /\ UNCHANGED <<planFixed, returned, target_bucket>>

\* mediaconvert_client.create_job raises: nothing catches it
CreateJobRaises ==
    /\ \/ pc = "single"
       \/ pc = "chunks" /\ Len(submitted) < CalculateChunks(duration_seconds)
    /\ pc' = "failed"
    /\ UNCHANGED <<planFixed, returned, job_ids, target_bucket, submitted,
                   audio_output_keys>>

\* result = {...}; return result
ReturnPlan ==
    /\ pc = "summary"
    /\ LET result == [statusCode |-> 200,
                      status |-> IF job_ids # <<>> THEN "COMPLETED"
                                 ELSE "ERROR",
                      job_ids |-> job_ids]
       IN  returned' =
            IF target_bucket # "None" /\ audio_output_keys # <<>>
            THEN result @@
                 [audioOutputUri |-> S3Uri(target_bucket, audio_output_keys[1]),
                  audioOutputUris |->
                    [i \in 1..Len(audio_output_keys) |->
                        S3Uri(target_bucket, audio_output_keys[i])]]
            ELSE result
    /\ pc' = "done"
    /\ UNCHANGED <<planFixed, job_ids, target_bucket, submitted,
                   audio_output_keys>>

NextPlan ==
    \/ NoRecords \/ ProbeRecord \/ SubmitChunk \/ ChunksSubmitted
    \/ SubmitSingle \/ CreateJobRaises \/ ReturnPlan

SpecPlan == InitPlan /\ [][NextPlan]_vars

(***************************************************************************)
(* C29: a recording of duration D is split exactly when D exceeds four     *)
(* hours; when split it gets n = ceil(D / 14400) chunk jobs, part p        *)
(* starting at (p - 1) * 14400 with duration min(14400, D - start), so     *)
(* every chunk lasts more than 0 and at most 14400 seconds, the chunks are *)
(* contiguous and their durations sum to D; when not split one whole-file  *)
(* job is submitted; job_ids and audio output URIs are returned in part    *)
(* order, one per job.                                                     *)
(***************************************************************************)
C29_ChunkPlan ==
    pc = "done" /\ inputKey # <<>> /\ duration_seconds > 0 =>
        LET D == duration_seconds
            T == 14400 * TicksPerSecond
            n == Len(submitted)
            info(p) == submitted[p].chunk_info[1]
        IN  /\ n >= 1
            /\ D > T <=> \A p \in 1..n : submitted[p].chunk_info # <<>>
            /\ D <= T => n = 1 /\ submitted[1].chunk_info = <<>>
            /\ D > T =>
                /\ (n - 1) * T < D /\ D <= n * T
                /\ \A p \in 1..n :
                    /\ info(p).part_number = p
                    /\ info(p).start_time_seconds = (p - 1) * T
                    /\ info(p).duration_seconds > 0
                    /\ info(p).duration_seconds <= T
                    /\ \/ info(p).duration_seconds = T
                                /\ T <= D - info(p).start_time_seconds
                       \/ info(p).duration_seconds
                                = D - info(p).start_time_seconds
                                /\ D - info(p).start_time_seconds <= T
                    /\ p < n => info(p).start_time_seconds
                                    + info(p).duration_seconds
                                = info(p + 1).start_time_seconds
                /\ info(1).start_time_seconds = 0
                /\ info(n).start_time_seconds + info(n).duration_seconds = D
            /\ returned.job_ids = [p \in 1..n |-> submitted[p].job_id]
            /\ Len(returned.audioOutputUris) = n
            /\ \A p \in 1..n :
                    returned.audioOutputUris[p] =
                        S3Uri(target_bucket,
                            IF D > T
                            THEN PartOutputKey(submitted[p].input, p)
                            ELSE ConvertedOutputKey(submitted[p].input))

\* three chunk jobs, the last one shorter than four hours
C29_Witness ==
    /\ pc = "done"
    /\ Len(submitted) = 3
    /\ submitted[3].chunk_info[1].duration_seconds = 1
    /\ Len(returned.job_ids) = 3

(***************************************************************************)
(* agenda_processor: poll_textract_job.  Times are in seconds; a call of   *)
(* the Textract API takes up to MaxLatency seconds.                        *)
(***************************************************************************)
MaxLatency == 1       \* seconds one get_document_text_detection call takes
MaxPages == 2         \* result pages behind a NextToken

MAX_TEXTRACT_WAIT_TIME == 900
TEXTRACT_POLL_INTERVAL == 30

\* the JobStatus values of a response
TextractStatuses == {"IN_PROGRESS", "SUCCEEDED", "FAILED", "PARTIAL_SUCCESS"}

\* a slip: no limit on the wait
WaitUnlimited(t) == FALSE

\* time.time() - start_time > MAX_TEXTRACT_WAIT_TIME, at time t
WaitExceeded(t) == t - poll_start > MAX_TEXTRACT_WAIT_TIME

\* what polling never changes
pollFixed == <<normVars, mergeVars, citeVars, stored, status_code, calls,
               returned, job_ids, ptaVars, jobVars, planVars, poll_start>>

\* start_time = time.time()
InitPoll ==
    /\ pc = "poll"
    /\ now = 0
    /\ poll_start = 0
    /\ last_poll = -1
    /\ poll_error = "None"
    /\ pages = 0
    /\ job_status = "None"
    /\ stored = NotStored /\ status_code = 0 /\ calls = <<>>
    /\ returned = NoResult /\ job_ids = <<>>
    /\ NormIdle /\ MergeIdle /\ CiteIdle /\ PtaIdle /\ JobIdle /\ PlanIdle

\* the poll answers SUCCEEDED: extract_text_from_textract_response begins
PollSucceeded ==
    /\ pc = "poll"
    /\ \E l \in 0..MaxLatency : now' = now + l
    /\ last_poll' = now
    /\ job_status' = "SUCCEEDED"
    /\ pages' \in 0..MaxPages
    /\ pc' = "extract"
    /\ UNCHANGED <<pollFixed, poll_error>>

\* the poll answers FAILED, or a status that is none of the three handled:
\* raise Exception
PollFailed ==
    /\ pc = "poll"
    /\ \E l \in 0..MaxLatency : now' = now + l
    /\ last_poll' = now
    /\ job_status' \in TextractStatuses \ {"SUCCEEDED", "IN_PROGRESS"}
    /\ poll_error' = IF job_status' = "FAILED" THEN "failed"
                     ELSE "Unexpected Textract job status"
    /\ pc' = "failed"
    /\ UNCHANGED <<pollFixed, pages>>

\* get_document_text_detection raises: logged and raised again
PollRaises ==
    /\ pc = "poll"
    /\ \E l \in 0..MaxLatency : now' = now + l
    /\ last_poll' = now
    /\ poll_error' = "client error"
    /\ pc' = "failed"
    /\ UNCHANGED <<pollFixed, pages, job_status>>

\* the poll answers IN_PROGRESS within the wait limit: time.sleep comes next
PollInProgress ==
    /\ pc = "poll"
    /\ \E l \in 0..MaxLatency : now' = now + l
    /\ ~WaitExceeded(now')
    /\ last_poll' = now
    /\ job_status' = "IN_PROGRESS"
    /\ pc' = "sleep"
    /\ UNCHANGED <<pollFixed, pages, poll_error>>

\* the poll answers IN_PROGRESS past the wait limit: raise Exception
PollTimedOut ==
    /\ pc = "poll"
    /\ \E l \in 0..MaxLatency : now' = now + l
    /\ WaitExceeded(now')
    /\ last_poll' = now
    /\ job_status' = "IN_PROGRESS"
    /\ poll_error' = "exceeded maximum wait time"
    /\ pc' = "failed"
    /\ UNCHANGED <<pollFixed, pages>>

\* time.sleep(TEXTRACT_POLL_INTERVAL); the clock of the model stops two
\* intervals past the wait limit
Sleep ==
    /\ pc = "sleep"
    /\ now + TEXTRACT_POLL_INTERVAL
            <= poll_start + MAX_TEXTRACT_WAIT_TIME + 2 * TEXTRACT_POLL_INTERVAL
    /\ now' = now + TEXTRACT_POLL_INTERVAL
    /\ pc' = "poll"
    /\ UNCHANGED <<pollFixed, last_poll, pages, job_status, poll_error>>

\* one iteration of "while next_token": the next page is fetched
NextPage ==
    /\ pc = "extract"
    /\ pages > 0
    /\ \E l \in 0..MaxLatency : now' = now + l
    /\ pages' = pages - 1
    /\ UNCHANGED <<pc, pollFixed, last_poll, job_status, poll_error>>

\* fetching a page raises: break, the text read so far is returned
PageRaises ==
    /\ pc = "extract"
    /\ pages > 0
    /\ \E l \in 0..MaxLatency : now' = now + l
    /\ pc' = "done"
    /\ UNCHANGED <<pollFixed, last_poll, pages, job_status, poll_error>>

\* no NextToken is left: return full_text
ReturnText ==
    /\ pc = "extract"
    /\ pages = 0
    /\ pc' = "done"
    /\ UNCHANGED <<pollFixed, now, last_poll, pages, job_status, poll_error>>

NextPoll ==
    \/ PollSucceeded \/ PollFailed \/ PollRaises \/ PollInProgress
    \/ PollTimedOut \/ Sleep \/ NextPage \/ PageRaises \/ ReturnText

SpecPoll == InitPoll /\ [][NextPoll]_vars

\* the function keeps running and time.sleep returns
SpecPollFair == SpecPoll /\ WF_vars(NextPoll)

(***************************************************************************)
(* C30: poll_textract_job terminates whatever statuses the job reports: it *)
(* returns text only after SUCCEEDED, raises on FAILED and on every status *)
(* other than IN_PROGRESS, and raises when the job is still IN_PROGRESS    *)
(* more than 15 minutes after polling began; between two polls it waits    *)
(* one poll interval, so it never polls for ever.                          *)
(***************************************************************************)
C30_PollTerminates ==
    /\ [](pc = "done" => job_status = "SUCCEEDED" /\ poll_error = "None")
    /\ [](pc = "failed" <=> poll_error # "None")
    /\ [](job_status = "FAILED" => poll_error = "failed")
    /\ [](job_status \notin {"None", "IN_PROGRESS", "SUCCEEDED", "FAILED"}
            => poll_error = "Unexpected Textract job status")
    /\ [](poll_error = "exceeded maximum wait time"
            => job_status = "IN_PROGRESS" /\ now - poll_start > 15 * 60)
    /\ [](pc = "sleep"
            => job_status = "IN_PROGRESS" /\ now - poll_start <= 15 * 60)
    /\ [](pc = "poll" /\ last_poll >= 0 => now - last_poll >= 30)
    /\ [](pc = "poll" => now - poll_start <= 15 * 60 + 30)
    /\ <>(pc \in {"done", "failed"})

\* the job was still IN_PROGRESS after the wait limit and the poll raised
C30_Witness ==
    /\ pc = "failed"
    /\ poll_error = "exceeded maximum wait time"
    /\ job_status = "IN_PROGRESS"
    /\ now - poll_start > 15 * 60

====
